---- MODULE Spec2Model ----
(***************************************************************************)
(* A model of mirror-mcp: the watch-history parser, the statistics         *)
(* analyzers and the tool handlers of the server with their cache file.    *)
(*                                                                         *)
(* Conventions.                                                            *)
(*   - A Python Optional is a sequence of length 0 (None) or 1 (a value).  *)
(*   - A timestamp string is a record [ok, h, suffix]: ok says whether     *)
(*     datetime.fromisoformat accepts it, h is the wall-clock hour counted *)
(*     from Monday 2024-01-01T00:00 and suffix is the text after the       *)
(*     seconds ("Z", an offset such as "+09:00", or nothing).  A datetime  *)
(*     is [h, aware, off]: the wall-clock hour, whether it has a tzinfo,   *)
(*     and its UTC offset in hours (0 when it has none).                   *)
(*   - A title is a sequence of words.                                     *)
(*   - A function that can raise returns [exc, val]; exc = "none" means it *)
(*     returned val.                                                       *)
(*   - Floats are fixed-point integers; the unit is in the field's name    *)
(*     or comment.                                                         *)
(***************************************************************************)
EXTENDS Integers, Sequences, FiniteSets, TLC

VARIABLES
    entries,         \* _state["entries"]: None or the list of entries
    file_path,       \* _state["file_path"]: None or a path
    analysis_cache,  \* _state["analysis_cache"]
    cache_file,      \* the file CACHE_FILE on disk
    result,          \* what the last tool call returned or raised
    hist,            \* history of the session, for the temporal claims
    arg,             \* the argument of a direct call of an analyzer
    ret              \* what that call returned or raised

vars == <<entries, file_path, analysis_cache, cache_file, result, hist, arg, ret>>

\* ------------------------------------------------------------ Python values

None == <<>>

Some(v) == <<v>>

Get(opt, default) == IF opt = None THEN default ELSE opt[1]

Returned(v) == [exc |-> "none", val |-> v]

Raised(e) == [exc |-> e, val |-> <<>>]

Max2(a, b) == IF a >= b THEN a ELSE b

Min2(a, b) == IF a <= b THEN a ELSE b

\* round(): num/den to the nearest integer, ties to the even one
RoundDiv(num, den) ==
    LET q == num \div den
        r == num % den
    IN  IF 2 * r < den THEN q
        ELSE IF 2 * r > den THEN q + 1
        ELSE IF q % 2 = 0 THEN q ELSE q + 1

RECURSIVE SeqSum(_)
SeqSum(s) == IF s = <<>> THEN 0 ELSE s[1] + SeqSum(Tail(s))

RECURSIVE Distinct(_)
\* the keys of Counter(s), in insertion (first-encountered) order
Distinct(s) ==
    IF s = <<>> THEN <<>>
    ELSE LET front == Distinct(SubSeq(s, 1, Len(s) - 1))
             last == s[Len(s)]
         IN  IF \E i \in DOMAIN front : front[i] = last THEN front
             ELSE Append(front, last)

Count(s, k) == Cardinality({i \in DOMAIN s : s[i] = k})

RECURSIVE SortByCount(_, _)
\* sorted(items, key=count, reverse=True): stable, so ties keep insertion order
SortByCount(keys, s) ==
    IF keys = <<>> THEN <<>>
    ELSE LET best == CHOOSE i \in DOMAIN keys :
                        /\ \A j \in DOMAIN keys : Count(s, keys[j]) <= Count(s, keys[i])
                        /\ \A j \in 1..(i - 1) : Count(s, keys[j]) < Count(s, keys[i])
             rest == [j \in 1..(Len(keys) - 1) |->
                        IF j < best THEN keys[j] ELSE keys[j + 1]]
         IN  <<<<keys[best], Count(s, keys[best])>>>> \o SortByCount(rest, s)

\* dict(Counter(s)): <<key, count>> in insertion order
CounterItems(s) == [i \in DOMAIN Distinct(s) |-> <<Distinct(s)[i], Count(s, Distinct(s)[i])>>]

Take(s, n) == SubSeq(s, 1, Min2(n, Len(s)))

\* Counter(s).most_common(n)
most_common(s, n) == Take(SortByCount(Distinct(s), s), n)

\* ------------------------------------------------------------ models.py

ChannelInfo(name, url) == [name |-> name, url |-> url]

WatchHistoryEntry(header, title, titleUrl, subtitles, time) ==
    [header |-> header, title |-> title, titleUrl |-> titleUrl,
     subtitles |-> subtitles, time |-> time]

DefaultHeader == "YouTube"

clean_title(e) ==
    IF e.title # <<>> /\ e.title[1] = "Watched" THEN Tail(e.title) ELSE e.title

\* None when the entry has no channel
channel_name(e) == IF e.subtitles # <<>> THEN Some(e.subtitles[1].name) ELSE None

\* a filter that keeps every entry with a subtitle, whatever its name
HasSubtitle(e) == channel_name(e) # None

\* `if e.channel_name`: neither None nor the empty string
HasChannel(e) == channel_name(e) # None /\ channel_name(e)[1] # ""

\* [e.channel_name for e in entries if e.channel_name]
ChannelsOf(es) ==
    LET keep == SelectSeq(es, HasChannel)
    IN  [i \in DOMAIN keep |-> channel_name(keep[i])[1]]

\* ------------------------------------------------------------ datetime

TimeStr(h, suffix) == [ok |-> TRUE, h |-> h, suffix |-> suffix]

BadTimeStr == [ok |-> FALSE, h |-> 0, suffix |-> ""]

\* time_str.replace("Z", "+00:00")
ReplaceZ(s) == IF s.suffix = "Z" THEN [s EXCEPT !.suffix = "+00:00"] ELSE s

\* the offsets the timestamp strings are written with, in hours
Offsets == [suffix \in {"+00:00", "+09:00", "-05:00"} |->
               CASE suffix = "+09:00" -> 9 [] suffix = "-05:00" -> 0 - 5 [] OTHER -> 0]

\* datetime.fromisoformat: naive without an offset, aware with one; the date and
\* the hour are those written in the string, the offset is kept beside them
fromisoformat(s) ==
    IF ~s.ok THEN Raised("ValueError")
    ELSE IF s.suffix = "" THEN Returned([h |-> s.h, aware |-> FALSE, off |-> 0])
    ELSE Returned([h |-> s.h, aware |-> TRUE, off |-> Offsets[s.suffix]])

\* datetime.isoformat
isoformat(t) ==
    TimeStr(t.h, IF ~t.aware THEN ""
                 ELSE CHOOSE suffix \in DOMAIN Offsets : Offsets[suffix] = t.off)

\* the instant of a datetime, in hours of UTC
Instant(t) == t.h - t.off

HoursPerDay == 24

\* (later - earlier).days
DaysBetween(earlier, later) == (Instant(later) - Instant(earlier)) \div HoursPerDay

\* min()/max() over datetimes: comparing a naive with an aware one raises
MixedAwareness(ts) == \E i, j \in DOMAIN ts : ts[i].aware # ts[j].aware

\* min(): the first of the earliest instants
MinTime(ts) ==
    ts[CHOOSE i \in DOMAIN ts :
          /\ \A j \in DOMAIN ts : Instant(ts[i]) <= Instant(ts[j])
          /\ \A j \in 1..(i - 1) : Instant(ts[j]) > Instant(ts[i])]

\* max(): the first of the latest instants
MaxTime(ts) ==
    ts[CHOOSE i \in DOMAIN ts :
          /\ \A j \in DOMAIN ts : Instant(ts[i]) >= Instant(ts[j])
          /\ \A j \in 1..(i - 1) : Instant(ts[j]) < Instant(ts[i])]

\* ------------------------------------------------------------ input files

\* one record of a watch-history.json; an absent key is None
RawItem(header, title, titleUrl, time, subtitles) ==
    [header |-> header, title |-> title, titleUrl |-> titleUrl,
     time |-> time, subtitles |-> subtitles]

RawSub(name, url) == [name |-> name, url |-> url]

ListFile(records) == [kind |-> "list", records |-> records]

MissingFile == [kind |-> "missing", records |-> <<>>]

MalformedFile == [kind |-> "malformed", records |-> <<>>]

ItemLofi ==
    RawItem(Some("YouTube"), Some(<<"Watched", "lofi", "beats">>), Some("u1"),
            Some(TimeStr(3, "Z")), <<RawSub(Some("ChanA"), Some("cA"))>>)

ItemGame ==
    RawItem(Some("YouTube Music"), Some(<<"Watched", "game", "stream">>), Some("u2"),
            Some(TimeStr(30, "+00:00")), <<RawSub(Some("ChanB"), None)>>)

ItemNoTitle ==
    RawItem(Some("YouTube"), None, None, Some(TimeStr(180, "Z")), <<>>)

ItemNoName ==
    RawItem(Some("YouTube"), Some(<<"jazz", "piano">>), Some("u3"),
            Some(TimeStr(200, "Z")), <<RawSub(None, Some("cC"))>>)

ItemSearch ==
    RawItem(Some("Search"), Some(<<"Searched", "for", "jazz">>), None,
            Some(TimeStr(5, "Z")), <<>>)

ItemNoHeader ==
    RawItem(None, Some(<<"Watched", "ad">>), None, Some(TimeStr(6, "Z")), <<>>)

ItemBadTime ==
    RawItem(Some("YouTube"), Some(<<"Watched", "python", "tutorial">>), Some("u4"),
            Some(BadTimeStr), <<RawSub(Some("ChanA"), Some("cA"))>>)

ItemNoTime ==
    RawItem(Some("YouTube"), Some(<<"Watched", "vlog">>), Some("u5"), None, <<>>)

ItemNaive ==
    RawItem(Some("YouTube"), Some(<<"Watched", "lofi", "mix">>), Some("u6"),
            Some(TimeStr(50, "")), <<RawSub(Some("ChanA"), Some("cA"))>>)

ItemNaiveLate ==
    RawItem(Some("YouTube"), Some(<<"Watched", "game", "review">>), Some("u7"),
            Some(TimeStr(400, "")), <<RawSub(Some("ChanB"), Some("cB"))>>)

\* the files on disk, by path
Files ==
    [p \in {"missing.json", "broken.json", "empty.json", "skipped.json",
            "one.json", "history.json", "naive.json", "mixed.json"} |->
        CASE p = "missing.json" -> MissingFile
          [] p = "broken.json" -> MalformedFile
          [] p = "empty.json" -> ListFile(<<>>)
          [] p = "skipped.json" -> ListFile(<<ItemSearch, ItemBadTime, ItemNoHeader, ItemNoTime>>)
          [] p = "one.json" -> ListFile(<<ItemSearch, ItemGame>>)
          [] p = "history.json" ->
                ListFile(<<ItemLofi, ItemSearch, ItemNoTitle, ItemBadTime, ItemGame, ItemNoName>>)
          [] p = "naive.json" -> ListFile(<<ItemNaiveLate, ItemNaive>>)
          [] OTHER -> ListFile(<<ItemLofi, ItemNaive>>)]

Paths == DOMAIN Files

\* ------------------------------------------------------------ parsers/youtube.py

RecognizedHeaders == {"YouTube", "YouTube Music"}

\* the body of the loop over raw_data: <<>> when the item is skipped
ParseItem(item) ==
    IF item.header = None \/ item.header[1] \notin RecognizedHeaders THEN <<>>
    ELSE LET subtitles == [i \in DOMAIN item.subtitles |->
                              ChannelInfo(Get(item.subtitles[i].name, "Unknown"),
                                          item.subtitles[i].url)]
             timestamp == fromisoformat(ReplaceZ(Get(item.time, BadTimeStr)))
         IN  IF timestamp.exc # "none" THEN <<>>
             ELSE <<WatchHistoryEntry(Get(item.header, DefaultHeader),
                                      Get(item.title, <<"Unknown">>),
                                      item.titleUrl, subtitles, timestamp.val)>>

RECURSIVE ParseItems(_)
ParseItems(items) ==
    IF items = <<>> THEN <<>> ELSE ParseItem(items[1]) \o ParseItems(Tail(items))

\* a JSON value that is not a string
JsonNull == [json |-> "null"]

IsString(value) == "ok" \in DOMAIN value

\* time_str.replace raises AttributeError when the "time" of a record with a
\* recognized header is not a string
ReplaceRaises(item) ==
    /\ item.header # None
    /\ item.header[1] \in RecognizedHeaders
    /\ item.time # None
    /\ ~IsString(item.time[1])

\* the loop over raw_data
ParseRecords(records) ==
    IF \E i \in DOMAIN records : ReplaceRaises(records[i]) THEN Raised("AttributeError")
    ELSE Returned(ParseItems(records))

parse_watch_history(path) ==
    LET file == Files[path]
    IN  IF file.kind = "missing" THEN Raised("FileNotFoundError")
        ELSE IF file.kind = "malformed" THEN Raised("JSONDecodeError")
        ELSE ParseRecords(file.records)

\* ------------------------------------------------------------ analyzers/statistics.py

\* videos_per_day_avg is in hundredths
analyze_watch_statistics(es) ==
    IF es = <<>> THEN Raised("ValueError")
    ELSE LET channels == ChannelsOf(es)
             channel_counts == most_common(channels, 20)
             timestamps == [i \in DOMAIN es |-> es[i].time]
         IN  IF MixedAwareness(timestamps) THEN Raised("TypeError")
             ELSE LET date_start == MinTime(timestamps)
                      date_end == MaxTime(timestamps)
                      span == DaysBetween(date_start, date_end)
                      days_span == IF span = 0 THEN 1 ELSE span
                  IN  Returned([total_videos |-> Len(es),
                                unique_channels |-> Cardinality({channels[i] : i \in DOMAIN channels}),
                                date_range_start |-> date_start,
                                date_range_end |-> date_end,
                                top_channels |-> channel_counts,
                                videos_per_day_avg |-> RoundDiv(Len(es) * 100, days_span)])

\* ------------------------------------------------------------ analyzers/topics.py

\* A title is a sequence of tokens, the pieces between its spaces.  A Hangul word
\* is written "ko:" and its romanization ("ko:jaejeu" is the word SYNONYMS lists
\* as a variant of "jazz"); "ko:piano" is Hangul, "piano" is Latin.
HangulWords ==
    {"ko:keipap", "ko:ropai", "ko:hiphap", "ko:raep", "ko:araenbi", "ko:arenbi",
     "ko:illekteuronik", "ko:jaejeu", "ko:rok", "ko:rak", "ko:pap", "ko:papsong",
     "ko:keullaesik", "ko:keullaesikeol", "ko:keullaeksik", "ko:indi", "ko:indieumak",
     "ko:eokuseutik", "ko:tonggita", "ko:balladeu", "ko:balladeugok", "ko:piano",
     "ko:gita", "ko:illekgita", "ko:eieseuemal", "ko:beuirogeu", "ko:ilsang",
     "ko:geim", "ko:gem", "ko:peullei", "ko:gangui", "ko:tyutorieol", "ko:gangjwa",
     "ko:ribyu", "ko:hugi", "ko:meokbang", "ko:eumak", "ko:eseo", "ko:euro", "ko:ui"}

\* len(w) of the words the patterns extract: letters of a Latin word, syllables
\* of a Hangul word.  No Latin word of a title holds a category keyword as a
\* proper substring, so `kw in title` is: kw is one of the title's lower-cased
\* words.
WordLength ==
    [w \in {"Watched", "Unknown", "Searched", "watched", "unknown", "searched",
            "for", "ad", "mix", "jaz", "lofi", "beats", "game", "stream", "jazz",
            "piano", "python", "tutorial", "vlog", "review", "lo", "fi", "k", "pop",
            "hip", "hop", "to", "study", "hits", "music", "daily"}
           \cup HangulWords |->
        CASE w \in {"k", "ko:raep", "ko:rok", "ko:rak", "ko:pap", "ko:gem", "ko:ui"} -> 1
          [] w \in {"ad", "lo", "fi", "to", "ko:hiphap", "ko:jaejeu", "ko:papsong",
                    "ko:indi", "ko:gita", "ko:ilsang", "ko:geim", "ko:gangui",
                    "ko:gangjwa", "ko:ribyu", "ko:hugi", "ko:meokbang", "ko:eumak",
                    "ko:eseo", "ko:euro"} -> 2
          [] w \in {"for", "mix", "jaz", "pop", "hip", "hop", "ko:keipap", "ko:ropai",
                    "ko:araenbi", "ko:arenbi", "ko:keullaesik", "ko:keullaeksik",
                    "ko:tonggita", "ko:balladeu", "ko:piano", "ko:peullei"} -> 3
          [] w \in {"lofi", "game", "jazz", "vlog", "hits", "ko:keullaesikeol",
                    "ko:indieumak", "ko:eokuseutik", "ko:balladeugok", "ko:illekgita",
                    "ko:beuirogeu", "ko:tyutorieol"} -> 4
          [] w \in {"beats", "piano", "study", "music", "daily", "ko:illekteuronik"} -> 5
          [] w \in {"stream", "python", "review", "ko:eieseuemal"} -> 6
          [] w \in {"Watched", "Unknown", "watched", "unknown"} -> 7
          [] OTHER -> 8]

\* str.lower()
Lower(w) ==
    CASE w = "Watched" -> "watched"
      [] w = "Unknown" -> "unknown"
      [] w = "Searched" -> "searched"
      [] w = "Lo-fi" -> "lo-fi"
      [] w \in {"K-pop", "K-POP"} -> "k-pop"
      [] w \in {"JAZ", "Jaz"} -> "jaz"
      [] w = "Jazz" -> "jazz"
      [] w = "Daily" -> "daily"
      [] w = "UPPER" -> "upper"
      [] w = "Chill" -> "chill"
      [] w = "Melancholic" -> "melancholic"
      [] w = "Dreamy" -> "dreamy"
      [] w = "Introspective" -> "introspective"
      [] w = "Fresh" -> "fresh"
      [] w = "Uplifting" -> "uplifting"
      [] w = "Energetic" -> "energetic"
      [] w = "Focused" -> "focused"
      [] w = "Productive" -> "productive"
      [] w = "Moderate" -> "moderate"
      [] w = "Relaxed" -> "relaxed"
      [] w = "Warm" -> "warm"
      [] w = "Nostalgic" -> "nostalgic"
      [] OTHER -> w

\* KOREAN_PATTERN.findall() of one token
HangulRuns(w) == IF w \in HangulWords THEN <<w>> ELSE <<>>

\* ENGLISH_PATTERN.findall() of one lower-cased token: a hyphen, "&" or a digit
\* ends a run of letters
LatinRuns(w) ==
    CASE w = "lo-fi" -> <<"lo", "fi">>
      [] w = "k-pop" -> <<"k", "pop">>
      [] w = "hip-hop" -> <<"hip", "hop">>
      [] w = "2024" -> <<>>
      [] w \in HangulWords -> <<>>
      [] OTHER -> <<w>>

\* the dict, in its order: <<canonical, variants>>
SYNONYMS ==
    <<<<"kpop", <<"k-pop", "ko:keipap", "k pop", "korean pop">>>>,
      <<"lofi", <<"lo-fi", "ko:ropai", "lo fi", "lofi hip hop">>>>,
      <<"hiphop", <<"hip-hop", "ko:hiphap", "hip hop", "ko:raep">>>>,
      <<"rnb", <<"r&b", "ko:araenbi", "rhythm and blues", "ko:arenbi">>>>,
      <<"edm", <<"electronic", "ko:illekteuronik", "electronic dance", "electronica">>>>,
      <<"jazz", <<"ko:jaejeu", "jaz">>>>,
      <<"rock", <<"ko:rok", "ko:rak">>>>,
      <<"pop", <<"ko:pap", "ko:papsong">>>>,
      <<"classical", <<"ko:keullaesik", "ko:keullaesikeol", "ko:keullaeksik">>>>,
      <<"indie", <<"ko:indi", "ko:indieumak">>>>,
      <<"acoustic", <<"ko:eokuseutik", "ko:tonggita">>>>,
      <<"ballad", <<"ko:balladeu", "ko:balladeugok">>>>,
      <<"piano", <<"ko:piano">>>>,
      <<"guitar", <<"ko:gita", "ko:tonggita", "ko:illekgita">>>>,
      <<"asmr", <<"ko:eieseuemal">>>>,
      <<"vlog", <<"ko:beuirogeu", "ko:ilsang", "daily">>>>,
      <<"gaming", <<"ko:geim", "ko:gem", "ko:peullei">>>>,
      <<"tutorial", <<"ko:gangui", "ko:tyutorieol", "ko:gangjwa">>>>,
      <<"review", <<"ko:ribyu", "ko:hugi">>>>,
      <<"mukbang", <<"ko:meokbang", "eating show">>>>>>

\* the keys entry k of SYNONYMS writes into _SYNONYM_LOOKUP
LookupKeys(k) ==
    {Lower(SYNONYMS[k][1])} \cup {Lower(SYNONYMS[k][2][i]) : i \in DOMAIN SYNONYMS[k][2]}

\* _SYNONYM_LOOKUP.get(w): the loop writes in the order of the dict, so the
\* last entry that has the key decides
_SYNONYM_LOOKUP(w) ==
    LET hits == {k \in DOMAIN SYNONYMS : w \in LookupKeys(k)}
    IN  IF hits = {} THEN None
        ELSE Some(SYNONYMS[CHOOSE k \in hits : \A j \in hits : j <= k][1])

\* a lookup by the word as it is written, lower-cased only when it is not found
normalize_keyword_as_written(word) == Get(_SYNONYM_LOOKUP(word), Lower(word))

normalize_keyword(word) == Get(_SYNONYM_LOOKUP(Lower(word)), Lower(word))

STOPWORDS_EN ==
    {"the", "a", "an", "and", "or", "but", "in", "on", "at", "to", "for",
     "of", "with", "by", "from", "as", "is", "was", "are", "were", "been",
     "be", "have", "has", "had", "do", "does", "did", "will", "would",
     "could", "should", "may", "might", "must", "shall", "can", "need",
     "this", "that", "these", "those", "it", "its", "my", "your", "our",
     "their", "his", "her", "what", "which", "who", "whom", "how", "when",
     "where", "why", "all", "each", "every", "both", "few", "more", "most",
     "other", "some", "such", "no", "not", "only", "own", "same", "so",
     "than", "too", "very", "just", "also", "now", "here", "there", "then",
     "official", "video", "music", "live", "new", "full", "hd", "mv"}

STOPWORDS_KR ==
    {"ko:geu", "ko:i", "ko:jeo", "ko:geot", "ko:su", "ko:deung", "ko:mit", "ko:deo",
     "ko:reul", "ko:eul", "ko:e", "ko:ui", "ko:ga", "ko:neun", "ko:eun", "ko:ro",
     "ko:euro", "ko:eseo", "ko:kkaji", "ko:buteo", "ko:wa", "ko:gwa", "ko:hada",
     "ko:doeda", "ko:itda", "ko:eopda", "ko:gatda", "ko:wihae", "ko:tonghae",
     "ko:daehan"}

\* the categories in the order of the dict
CategoryOrder == <<"music", "gaming", "tech", "entertainment", "education">>

\* the Latin-script keywords of each category
CATEGORY_KEYWORDS ==
    [c \in {"music", "gaming", "tech", "entertainment", "education"} |->
        CASE c = "music" ->
                {"music", "song", "mv", "cover", "live", "concert", "playlist",
                 "lofi", "lo-fi", "jazz", "rock", "pop", "hip-hop", "hiphop",
                 "edm", "classical", "acoustic", "indie", "r&b", "rnb", "kpop"}
          [] c = "gaming" ->
                {"game", "gaming", "gameplay", "stream", "twitch", "let's play",
                 "walkthrough"}
          [] c = "tech" ->
                {"tech", "review", "unboxing", "coding", "programming", "tutorial",
                 "python", "javascript", "react", "ai", "machine learning"}
          [] c = "entertainment" ->
                {"vlog", "funny", "comedy", "mukbang", "asmr", "reaction"}
          [] OTHER ->
                {"tutorial", "learn", "how to", "lecture", "course", "class", "lesson"}]

\* any(kw in title for kw in CATEGORY_KEYWORDS[category]), title lower-cased
TitleInCategory(title, category) ==
    \E i \in DOMAIN title : Lower(title[i]) \in CATEGORY_KEYWORDS[category]

RECURSIVE CategoryHits(_)
\* the categories in the order the double loop increments their counters
CategoryHits(titles) ==
    IF titles = <<>> THEN <<>>
    ELSE SelectSeq(CategoryOrder, LAMBDA c : TitleInCategory(titles[1], c))
            \o CategoryHits(Tail(titles))

RECURSIVE korean_words(_)
\* KOREAN_PATTERN.findall(title)
korean_words(title) ==
    IF title = <<>> THEN <<>> ELSE HangulRuns(title[1]) \o korean_words(Tail(title))

RECURSIVE english_words(_)
\* ENGLISH_PATTERN.findall(title.lower())
english_words(title) ==
    IF title = <<>> THEN <<>> ELSE LatinRuns(Lower(title[1])) \o english_words(Tail(title))

\* the words of one title that extract_keywords_simple keeps, normalized: the
\* Hangul words first, then the Latin words of the lower-cased title
TitleKeywords(title) ==
    LET korean_kept == SelectSeq(korean_words(title),
                                 LAMBDA w : WordLength[w] >= 2 /\ w \notin STOPWORDS_KR)
        english_kept == SelectSeq(english_words(title),
                                  LAMBDA w : WordLength[w] >= 3 /\ w \notin STOPWORDS_EN)
    IN  [i \in DOMAIN korean_kept |-> normalize_keyword(korean_kept[i])]
            \o [i \in DOMAIN english_kept |-> normalize_keyword(english_kept[i])]

RECURSIVE AllKeywords(_)
AllKeywords(titles) ==
    IF titles = <<>> THEN <<>> ELSE TitleKeywords(titles[1]) \o AllKeywords(Tail(titles))

extract_keywords_simple(titles, limit) == most_common(AllKeywords(titles), limit)

infer_categories(keywords) ==
    LET keyword_set == {keywords[i][1] : i \in DOMAIN keywords}
        detected == SelectSeq(CategoryOrder,
                              LAMBDA c : CATEGORY_KEYWORDS[c] \cap keyword_set # {})
    IN  IF detected = <<>> THEN <<"general">> ELSE detected

\* konlpy is not installed: extract_keywords_konlpy falls back to the simple
\* extraction.  No title of this model holds Korean script.
analyze_topics(es, limit) ==
    LET titles == [i \in DOMAIN es |-> clean_title(es[i])]
        keywords == extract_keywords_simple(titles, limit)
    IN  [keywords |-> keywords,
         language_breakdown |->
            [korean |-> 0,
             english |-> Cardinality({i \in DOMAIN titles : titles[i] # <<>>})],
         categories |-> infer_categories(keywords)]

\* ------------------------------------------------------------ analyzers/time_patterns.py

\* slots of which the first reaches into the second
TIME_SLOTS_OVERLAPPING ==
    <<<<"late_night", 0, 6, "00:00-05:00">>,
      <<"morning", 5, 12, "05:00-12:00">>,
      <<"afternoon", 12, 18, "12:00-18:00">>,
      <<"evening", 18, 24, "18:00-24:00">>>>

\* the slots in the order of the dict: <<name, start, end, hour_range>>
TIME_SLOTS ==
    <<<<"late_night", 0, 5, "00:00-05:00">>,
      <<"morning", 5, 12, "05:00-12:00">>,
      <<"afternoon", 12, 18, "12:00-18:00">>,
      <<"evening", 18, 24, "18:00-24:00">>>>

PHASE_NAMES ==
    [c \in {"music", "gaming", "tech", "education", "entertainment", "general"} |->
        CASE c = "music" -> "Music Exploration"
          [] c = "gaming" -> "Gaming Focus"
          [] c = "tech" -> "Tech Learning"
          [] c = "education" -> "Study Period"
          [] c = "entertainment" -> "Entertainment Binge"
          [] OTHER -> "Mixed Viewing"]

\* e.time.hour
HourOf(t) == t.h % HoursPerDay

\* e.time.date(), as the number of days since 2024-01-01
DateOf(t) == t.h \div HoursPerDay

DayNames ==
    <<"Monday", "Tuesday", "Wednesday", "Thursday", "Friday", "Saturday", "Sunday">>

\* e.time.strftime("%A"); 2024-01-01 is a Monday
DayNameOf(t) == DayNames[(DateOf(t) % 7) + 1]

MonthLengths == <<31, 29, 31, 30, 31, 30, 31, 31, 30, 31, 30, 31>>

\* the dates are those of 2024 (a leap year) and 2025, counted from 2024-01-01
YearOfDate(d) == IF d < SeqSum(MonthLengths) THEN 2024 ELSE 2025

\* the day number of January 1st of a year
NewYear(year) == IF year = 2024 THEN 0 ELSE SeqSum(MonthLengths)

MonthLengthsOf(year) == IF year = 2024 THEN MonthLengths ELSE [MonthLengths EXCEPT ![2] = 28]

\* the key "%Y-%m" of day number d, written as the number YYYYMM, which orders as
\* the key does
MonthOfDate(d) ==
    LET year == YearOfDate(d)
        lengths == MonthLengthsOf(year)
        yday == d - NewYear(year)
        m == CHOOSE k \in 1..12 :
                /\ SeqSum(SubSeq(lengths, 1, k - 1)) <= yday
                /\ yday < SeqSum(SubSeq(lengths, 1, k))
    IN  year * 100 + m

\* e.time.strftime("%Y-%m")
MonthOf(t) == MonthOfDate(DateOf(t))

\* the first Monday of a year, as a day number
FirstMonday(year) == NewYear(year) + ((7 - (NewYear(year) % 7)) % 7)

\* e.time.strftime("%Y-W%W"), written as the number YYYYWW: weeks start on Monday
\* and the days of a year before its first Monday are in week 0
WeekOf(t) ==
    LET year == YearOfDate(DateOf(t))
    IN  year * 100 + ((DateOf(t) - FirstMonday(year) + 7) \div 7)

\* strptime(week + "-1", "%Y-W%W-%w").strftime("%Y.%m"): the month of its Monday
MonthOfWeek(week) == MonthOfDate(FirstMonday(week \div 100) + ((week % 100) - 1) * 7)

IsLateNightThroughFive(h) == 0 <= h /\ h <= 5

\* 0 <= h < 5
IsLateNight(h) == 0 <= h /\ h < 5

\* the ratios are in thousandths
analyze_time_patterns(es) ==
    IF es = <<>> THEN Raised("ValueError")
    ELSE LET hours == [i \in DOMAIN es |-> HourOf(es[i].time)]
             days == [i \in DOMAIN es |-> DayNameOf(es[i].time)]
             late_night_count == Cardinality({i \in DOMAIN hours : IsLateNight(hours[i])})
             weekend_count == Cardinality({i \in DOMAIN days : days[i] \in {"Saturday", "Sunday"}})
             peak_hours == most_common(hours, 3)
             peak_days == most_common(days, 2)
         IN  Returned([peak_hours |-> [i \in DOMAIN peak_hours |-> peak_hours[i][1]],
                       peak_days |-> [i \in DOMAIN peak_days |-> peak_days[i][1]],
                       hourly_distribution |-> CounterItems(hours),
                       daily_distribution |-> CounterItems(days),
                       late_night_ratio |-> RoundDiv(late_night_count * 1000, Len(es)),
                       weekend_ratio |-> RoundDiv(weekend_count * 1000, Len(es))])

Keys(pairs) == [i \in DOMAIN pairs |-> pairs[i][1]]

RECURSIVE SortedSet(_)
\* sorted(): ascending
SortedSet(S) ==
    IF S = {} THEN <<>>
    ELSE LET least == CHOOSE x \in S : \A y \in S : x <= y
         IN  <<least>> \o SortedSet(S \ {least})

\* one MonthlyTrend; avg_daily_videos is in hundredths
MonthTrend(month, month_entries, top_n) ==
    LET channels == ChannelsOf(month_entries)
        titles == [i \in DOMAIN month_entries |-> clean_title(month_entries[i])]
        top_categories == Keys(most_common(CategoryHits(titles), top_n))
        days_in_month == Cardinality({DateOf(month_entries[i].time) : i \in DOMAIN month_entries})
    IN  [month |-> month,
         video_count |-> Len(month_entries),
         top_categories |-> IF top_categories = <<>> THEN <<"general">> ELSE top_categories,
         top_channels |-> Keys(most_common(channels, top_n)),
         avg_daily_videos |-> RoundDiv(Len(month_entries) * 100, Max2(days_in_month, 1))]

analyze_monthly_trends_unsorted(es, top_n) ==
    IF es = <<>> THEN <<>>
    ELSE LET months == Distinct([i \in DOMAIN es |-> MonthOf(es[i].time)])
         IN  [k \in DOMAIN months |->
                MonthTrend(months[k],
                           SelectSeq(es, LAMBDA e : MonthOf(e.time) = months[k]),
                           top_n)]

analyze_monthly_trends(es, top_n) ==
    IF es = <<>> THEN <<>>
    ELSE LET months == SortedSet({MonthOf(es[i].time) : i \in DOMAIN es})
         IN  [k \in DOMAIN months |->
                MonthTrend(months[k],
                           SelectSeq(es, LAMBDA e : MonthOf(e.time) = months[k]),
                           top_n)]

\* the name of the slot an hour falls in
SlotOf(hour) ==
    LET k == CHOOSE i \in DOMAIN TIME_SLOTS :
                /\ TIME_SLOTS[i][2] <= hour /\ hour < TIME_SLOTS[i][3]
                /\ \A j \in 1..(i - 1) : ~(TIME_SLOTS[j][2] <= hour /\ hour < TIME_SLOTS[j][3])
    IN  TIME_SLOTS[k][1]

HourRangeOf(slot_name) ==
    LET k == CHOOSE i \in DOMAIN TIME_SLOTS : TIME_SLOTS[i][1] = slot_name
    IN  TIME_SLOTS[k][4]

\* one ContentTimeCorrelation
SlotCorrelation(slot_name, slot_data, top_n) ==
    LET titles == [i \in DOMAIN slot_data |-> clean_title(slot_data[i])]
        top_categories == Keys(most_common(CategoryHits(titles), top_n))
    IN  [time_slot |-> slot_name,
         hour_range |-> HourRangeOf(slot_name),
         top_categories |-> IF top_categories = <<>> THEN <<"general">> ELSE top_categories,
         top_keywords |-> Keys(extract_keywords_simple(titles, top_n)),
         video_count |-> Len(slot_data)]

\* the slots come in the order their first entry does (the dict's insertion order)
analyze_content_by_time(es, top_n) ==
    IF es = <<>> THEN <<>>
    ELSE LET slots == Distinct([i \in DOMAIN es |-> SlotOf(HourOf(es[i].time))])
         IN  [k \in DOMAIN slots |->
                SlotCorrelation(slots[k],
                                SelectSeq(es, LAMBDA e : SlotOf(HourOf(e.time)) = slots[k]),
                                top_n)]

RECURSIVE SortByTime(_)
\* sorted(entries, key=lambda e: e.time): stable
SortByTime(es) ==
    IF es = <<>> THEN <<>>
    ELSE LET first == CHOOSE i \in DOMAIN es :
                         /\ \A j \in DOMAIN es : Instant(es[i].time) <= Instant(es[j].time)
                         /\ \A j \in 1..(i - 1) : Instant(es[j].time) > Instant(es[i].time)
             rest == [j \in 1..(Len(es) - 1) |-> IF j < first THEN es[j] ELSE es[j + 1]]
         IN  <<es[first]>> \o SortByTime(rest)

\* one element of weekly_categories: <<week, category, count>>
WeekCategory(week, week_entries) ==
    LET titles == [i \in DOMAIN week_entries |-> clean_title(week_entries[i])]
        dominant == most_common(CategoryHits(titles), 1)
    IN  <<week, IF dominant = <<>> THEN "general" ELSE dominant[1][1], Len(week_entries)>>

\* the WatchingPhase appended when a phase of at least two weeks ends
PhaseOf(start_week, end_week, category, video_count, weeks) ==
    [period |-> <<MonthOfWeek(start_week), MonthOfWeek(end_week)>>,
     phase_name |-> PHASE_NAMES[category],
     dominant_categories |-> <<category>>,
     video_count |-> video_count,
     description |-> <<weeks, PHASE_NAMES[category], video_count>>]

RECURSIVE PhaseLoop(_, _, _, _, _, _, _)
\* the loop `for i in range(1, len(weekly_categories))`, i counted from 1 here
PhaseLoop(wc, i, phases, current_phase_start, current_category, phase_video_count, phase_weeks) ==
    IF i > Len(wc) THEN phases
    ELSE IF wc[i][2] # current_category \/ i = Len(wc)
         THEN PhaseLoop(wc, i + 1,
                        IF phase_weeks >= 2
                        THEN Append(phases, PhaseOf(current_phase_start, wc[i - 1][1],
                                                    current_category, phase_video_count,
                                                    phase_weeks))
                        ELSE phases,
                        wc[i][1], wc[i][2], wc[i][3], 1)
         ELSE PhaseLoop(wc, i + 1, phases, current_phase_start, current_category,
                        phase_video_count + wc[i][3], phase_weeks + 1)

\* a detector that keeps the phases of at least min_phase_days days
detect_watching_phases_of_min_days(es, min_phase_days) ==
    IF es = <<>> THEN Returned(<<>>)
    ELSE IF MixedAwareness([i \in DOMAIN es |-> es[i].time]) THEN Raised("TypeError")
    ELSE LET sorted_entries == SortByTime(es)
             weeks == SortedSet({WeekOf(es[i].time) : i \in DOMAIN es})
             weekly_categories ==
                [k \in DOMAIN weeks |->
                    WeekCategory(weeks[k],
                                 SelectSeq(sorted_entries, LAMBDA e : WeekOf(e.time) = weeks[k]))]
             phases == PhaseLoop(weekly_categories, 2, <<>>, weekly_categories[1][1],
                                 weekly_categories[1][2], weekly_categories[1][3], 1)
         IN  Returned(SelectSeq(phases, LAMBDA p : p.description[1] * 7 >= min_phase_days))

\* min_phase_days is accepted and never read
detect_watching_phases(es, min_phase_days) ==
    IF es = <<>> THEN Returned(<<>>)
    ELSE IF MixedAwareness([i \in DOMAIN es |-> es[i].time]) THEN Raised("TypeError")
    ELSE LET sorted_entries == SortByTime(es)
             weeks == SortedSet({WeekOf(es[i].time) : i \in DOMAIN es})
             weekly_categories ==
                [k \in DOMAIN weeks |->
                    WeekCategory(weeks[k],
                                 SelectSeq(sorted_entries, LAMBDA e : WeekOf(e.time) = weeks[k]))]
         IN  Returned(PhaseLoop(weekly_categories, 2, <<>>, weekly_categories[1][1],
                                weekly_categories[1][2], weekly_categories[1][3], 1))

\* ------------------------------------------------------------ diversity score

\* math.log2(n) in millionths, n = 1..64
Log2Micro ==
    <<
      0, 1000000, 1584963, 2000000, 2321928, 2584963, 2807355, 3000000,
      3169925, 3321928, 3459432, 3584963, 3700440, 3807355, 3906891, 4000000,
      4087463, 4169925, 4247928, 4321928, 4392317, 4459432, 4523562, 4584963,
      4643856, 4700440, 4754888, 4807355, 4857981, 4906891, 4954196, 5000000,
      5044394, 5087463, 5129283, 5169925, 5209453, 5247928, 5285402, 5321928,
      5357552, 5392317, 5426265, 5459432, 5491853, 5523562, 5554589, 5584963,
      5614710, 5643856, 5672425, 5700440, 5727920, 5754888, 5781360, 5807355,
      5832890, 5857981, 5882643, 5906891, 5930737, 5954196, 5977280, 6000000
    >>

Million == 1000000

\* floor(a * 10^6 / d) for 0 <= a <= d, digit pair by digit pair (32-bit safe)
RatioMicro(a, d) ==
    LET q0 == a \div d
        r0 == a % d
        q1 == (r0 * 100) \div d
        r1 == (r0 * 100) % d
        q2 == (r1 * 100) \div d
        r2 == (r1 * 100) % d
        q3 == (r2 * 100) \div d
    IN  q0 * Million + q1 * 10000 + q2 * 100 + q3

\* the interpretation of a composite score given in 1/100000
Interpretation(overall_score) ==
    IF overall_score >= 70 * 100000
    THEN "Highly diverse - you explore many different channels"
    ELSE IF overall_score >= 50 * 100000
    THEN "Moderately diverse - you have favorites but still explore"
    ELSE IF overall_score >= 30 * 100000
    THEN "Focused viewer - you stick to your preferred channels"
    ELSE "Very focused - you primarily watch a few channels"

ZeroScore(text) ==
    [overall_score |-> 0, channel_entropy |-> 0, top_channel_concentration |-> 0,
     unique_ratio |-> 0, interpretation |-> text]

\* a score whose unique ratio divides by the number of entries, not by the
\* number of entries that have a channel
calculate_diversity_score_over_entries(es) ==
    IF es = <<>> THEN ZeroScore("No data to analyze")
    ELSE LET channels == ChannelsOf(es) IN
    IF channels = <<>> THEN ZeroScore("No channel data available")
    ELSE LET channel_counts == CounterItems(channels)
             total == Len(channels)
             unique_channels == Len(channel_counts)
             entropy ==
                RoundDiv(total * Log2Micro[total]
                            - SeqSum([i \in DOMAIN channel_counts |->
                                        channel_counts[i][2] * Log2Micro[channel_counts[i][2]]]),
                         total)
             max_entropy == IF total > 1 THEN Log2Micro[total] ELSE Million
             normalized_entropy == IF max_entropy > 0 THEN RatioMicro(entropy, max_entropy) ELSE 0
             top_5 == most_common(channels, 5)
             top_5_counts == SeqSum([i \in DOMAIN top_5 |-> top_5[i][2]])
             top_concentration == IF total > 0 THEN RoundDiv(top_5_counts * Million, total) ELSE 0
             unique_ratio == RoundDiv(unique_channels * Million, Len(es))
             weighted == 5 * normalized_entropy + 3 * (Million - top_concentration)
                            + 2 * unique_ratio
             overall_score == Min2(100 * 100000, Max2(0, weighted))
         IN  [overall_score |-> RoundDiv(overall_score, 10000),
              channel_entropy |-> RoundDiv(entropy, 1000),
              top_channel_concentration |-> RoundDiv(top_concentration, 1000),
              unique_ratio |-> RoundDiv(unique_ratio, 1000),
              interpretation |-> Interpretation(overall_score)]

\* Returned fields: overall_score and top_channel_concentration in tenths,
\* channel_entropy and unique_ratio in thousandths.  Inside, entropy is in
\* millionths of a bit, the percentages in 1/10000 and the composite in 1/100000.
\* The entropy -sum p*log2(p) is computed as (T*log2(T) - sum c*log2(c)) / T.
calculate_diversity_score(es) ==
    IF es = <<>> THEN ZeroScore("No data to analyze")
    ELSE LET channels == ChannelsOf(es) IN
    IF channels = <<>> THEN ZeroScore("No channel data available")
    ELSE LET channel_counts == CounterItems(channels)
             total == Len(channels)
             unique_channels == Len(channel_counts)
             entropy ==
                RoundDiv(total * Log2Micro[total]
                            - SeqSum([i \in DOMAIN channel_counts |->
                                        channel_counts[i][2] * Log2Micro[channel_counts[i][2]]]),
                         total)
             max_entropy == IF total > 1 THEN Log2Micro[total] ELSE Million
             normalized_entropy == IF max_entropy > 0 THEN RatioMicro(entropy, max_entropy) ELSE 0
             top_5 == most_common(channels, 5)
             top_5_counts == SeqSum([i \in DOMAIN top_5 |-> top_5[i][2]])
             top_concentration == IF total > 0 THEN RoundDiv(top_5_counts * Million, total) ELSE 0
             unique_ratio == IF total > 0 THEN RoundDiv(unique_channels * Million, total) ELSE 0
             weighted == 5 * normalized_entropy + 3 * (Million - top_concentration)
                            + 2 * unique_ratio
             overall_score == Min2(100 * 100000, Max2(0, weighted))
         IN  [overall_score |-> RoundDiv(overall_score, 10000),
              channel_entropy |-> RoundDiv(entropy, 1000),
              top_channel_concentration |-> RoundDiv(top_concentration, 1000),
              unique_ratio |-> RoundDiv(unique_ratio, 1000),
              interpretation |-> Interpretation(overall_score)]

\* ------------------------------------------------------------ generators/suno_prompt.py

\* A string that the generator joins, splits or measures is written as the
\* sequence of the pieces that ", " separates in it: "piano, strings" is
\* <<"piano", "strings">> and "" is <<"">>; no piece contains ", ".
Str(piece) == <<piece>>

RECURSIVE PiecesLen(_)
PiecesLen(s) == IF s = <<>> THEN 0 ELSE Len(s[1]) + PiecesLen(Tail(s))

\* len(s)
StrLen(s) == PiecesLen(s) + 2 * (Len(s) - 1)

RECURSIVE Concat(_)
Concat(list) == IF list = <<>> THEN <<>> ELSE list[1] \o Concat(Tail(list))

\* ", ".join(list)
Join(list) == IF list = <<>> THEN Str("") ELSE Concat(list)

\* s.split(", ")
Split(s) == [i \in DOMAIN s |-> Str(s[i])]

\* s.lower()
LowerStr(s) == [i \in DOMAIN s |-> Lower(s[i])]

\* d.get(k, default)
DictGet(d, k, default) == IF k \in DOMAIN d THEN d[k] ELSE default

\* keyword -> <<genre, mood, tempo>>
MUSIC_STYLE_MAP ==
    ("ko:balladeu" :> <<"Ballad", "emotional", "slow">>)
    @@ ("ko:hiphap" :> <<"Hip-hop", "energetic", "fast">>)
    @@ ("ko:keipap" :> <<"K-pop", "upbeat", "moderate">>)
    @@ ("ko:jaejeu" :> <<"Jazz", "smooth", "moderate">>)
    @@ ("ko:keullaesik" :> <<"Classical", "elegant", "slow">>)
    @@ ("ko:ropai" :> <<"Lo-fi", "chill", "slow">>)
    @@ ("ko:indi" :> <<"Indie", "dreamy", "moderate">>)
    @@ ("ko:rok" :> <<"Rock", "powerful", "fast">>)
    @@ ("ko:pap" :> <<"Pop", "catchy", "moderate">>)
    @@ ("ko:araenbi" :> <<"R&B", "soulful", "moderate">>)
    @@ ("edm" :> <<"EDM", "energetic", "fast">>)
    @@ ("acoustic" :> <<"Acoustic", "warm", "moderate">>)
    @@ ("indie" :> <<"Indie", "dreamy", "moderate">>)
    @@ ("rock" :> <<"Rock", "powerful", "fast">>)
    @@ ("pop" :> <<"Pop", "catchy", "moderate">>)
    @@ ("jazz" :> <<"Jazz", "smooth", "moderate">>)
    @@ ("lofi" :> <<"Lo-fi", "chill", "slow">>)
    @@ ("lo-fi" :> <<"Lo-fi", "chill", "slow">>)
    @@ ("classical" :> <<"Classical", "elegant", "slow">>)
    @@ ("hiphop" :> <<"Hip-hop", "energetic", "fast">>)
    @@ ("hip-hop" :> <<"Hip-hop", "energetic", "fast">>)
    @@ ("r&b" :> <<"R&B", "soulful", "moderate">>)
    @@ ("rnb" :> <<"R&B", "soulful", "moderate">>)
    @@ ("ballad" :> <<"Ballad", "emotional", "slow">>)
    @@ ("kpop" :> <<"K-pop", "upbeat", "moderate">>)
    @@ ("k-pop" :> <<"K-pop", "upbeat", "moderate">>)
    @@ ("ambient" :> <<"Ambient", "atmospheric", "slow">>)
    @@ ("electronic" :> <<"Electronic", "synthetic", "moderate">>)
    @@ ("synthwave" :> <<"Synthwave", "retro", "moderate">>)
    @@ ("chill" :> <<"Chill", "relaxed", "slow">>)
    @@ ("piano" :> <<"Piano", "melodic", "moderate">>)
    @@ ("guitar" :> <<"Acoustic", "warm", "moderate">>)

TIME_MOOD_MAP ==
    [late_night |-> <<"Melancholic", "Dreamy", "Introspective">>,
     morning |-> <<"Fresh", "Uplifting", "Energetic">>,
     afternoon |-> <<"Focused", "Productive", "Moderate">>,
     evening |-> <<"Relaxed", "Warm", "Nostalgic">>]

BPM_MAP ==
    [fast |-> Str("120-140 BPM"),
     moderate |-> Str("90-110 BPM"),
     slow |-> Str("60-85 BPM")]

INSTRUMENT_MAP ==
    (Str("Lo-fi") :> <<"vinyl crackle", "mellow piano", "soft drums">>)
    @@ (Str("Jazz") :> <<"piano", "upright bass", "brushed drums", "saxophone">>)
    @@ (Str("Hip-hop") :> <<"808 bass", "trap hi-hats", "synth pads">>)
    @@ (Str("K-pop") :> <<"synth", "punchy drums", "bass drops", "vocal layers">>)
    @@ (Str("EDM") :> <<"synth leads", "side-chain compression", "build-ups">>)
    @@ (Str("Indie") :> <<"acoustic guitar", "soft synths", "ambient pads">>)
    @@ (Str("Pop") :> <<"piano", "guitar", "modern drums", "vocal harmonies">>)
    @@ (Str("Ballad") :> <<"piano", "strings", "soft percussion">>)
    @@ (Str("Rock") :> <<"electric guitar", "bass", "drums", "distortion">>)
    @@ (Str("Classical") :> <<"orchestra", "strings", "piano">>)
    @@ (Str("Acoustic") :> <<"acoustic guitar", "soft percussion", "warm bass">>)
    @@ (Str("R&B") :> <<"smooth bass", "Rhodes piano", "soft drums">>)
    @@ (Str("Ambient") :> <<"synthesizer pads", "reverb", "atmospheric textures">>)
    @@ (Str("Electronic") :> <<"synthesizers", "drum machines", "bass">>)
    @@ (Str("Synthwave") :> <<"analog synths", "arpeggios", "retro drums">>)
    @@ (Str("Chill") :> <<"soft piano", "ambient pads", "gentle percussion">>)
    @@ (Str("Piano") :> <<"grand piano", "soft strings", "minimal percussion">>)

TasteProfile(primary_genres, mood_keywords, energy_level, tempo_preference, time_context, language_preference) ==
    [primary_genres |-> primary_genres,
     mood_keywords |-> mood_keywords,
     energy_level |-> energy_level,
     tempo_preference |-> tempo_preference,
     time_context |-> time_context,
     language_preference |-> language_preference]

SunoPrompt(style_tags, mood, tempo_bpm, instruments, full_prompt) ==
    [style_tags |-> style_tags,
     mood |-> mood,
     tempo_bpm |-> tempo_bpm,
     instruments |-> instruments,
     full_prompt |-> full_prompt]

\* the <<genre, mood, tempo>> of the keywords that MUSIC_STYLE_MAP has, in order
RECURSIVE StyleMatches(_)
StyleMatches(keywords) ==
    IF keywords = <<>> THEN <<>>
    ELSE LET keyword_lower == Lower(keywords[1])
         IN  (IF keyword_lower \in DOMAIN MUSIC_STYLE_MAP
              THEN <<MUSIC_STYLE_MAP[keyword_lower]>> ELSE <<>>)
             \o StyleMatches(Tail(keywords))

\* max(tempo_count, key=tempo_count.get): the first of fast, moderate, slow that
\* has the most hints
DominantTempo(tempo_hints) ==
    LET order == <<"fast", "moderate", "slow">>
        best == CHOOSE i \in DOMAIN order :
                    /\ \A j \in DOMAIN order : Count(tempo_hints, order[j]) <= Count(tempo_hints, order[i])
                    /\ \A j \in 1..(i - 1) : Count(tempo_hints, order[j]) < Count(tempo_hints, order[i])
    IN  order[best]

\* min(hours), max(hours) of a non-empty list
MinOf(hours) == CHOOSE h \in {hours[i] : i \in DOMAIN hours} : \A i \in DOMAIN hours : h <= hours[i]
MaxOf(hours) == CHOOSE h \in {hours[i] : i \in DOMAIN hours} : \A i \in DOMAIN hours : h >= hours[i]

\* a choice that takes a ratio of 0.3 and the hours 10 and 18 into their branches
TimeContextAtTheBoundary(time_patterns) ==
    IF time_patterns.late_night_ratio >= 300 THEN "late_night"
    ELSE IF time_patterns.peak_hours # <<>> /\ MinOf(time_patterns.peak_hours) <= 10 THEN "morning"
    ELSE IF time_patterns.peak_hours # <<>> /\ MaxOf(time_patterns.peak_hours) >= 18 THEN "evening"
    ELSE "afternoon"

\* late_night_ratio is in thousandths
TimeContext(time_patterns) ==
    IF time_patterns.late_night_ratio > 300 THEN "late_night"
    ELSE IF time_patterns.peak_hours # <<>> /\ MinOf(time_patterns.peak_hours) < 10 THEN "morning"
    ELSE IF time_patterns.peak_hours # <<>> /\ MaxOf(time_patterns.peak_hours) > 18 THEN "evening"
    ELSE "afternoon"

KeptMoodsWithDuplicates(detected_moods) ==
    IF detected_moods # <<>> THEN Take(detected_moods, 5) ELSE <<Str("Balanced")>>

\* unique_moods[:5] or ["Balanced"], unique_moods the moods without duplicates in
\* first-seen order
KeptMoods(detected_moods) ==
    LET unique_moods == Distinct(detected_moods)
    IN  IF Take(unique_moods, 5) # <<>> THEN Take(unique_moods, 5) ELSE <<Str("Balanced")>>

build_taste_profile(topic_analysis, time_patterns) ==
    LET top == Take(topic_analysis.keywords, 15)
        keywords == [i \in DOMAIN top |-> top[i][1]]
        matches == StyleMatches(keywords)
        genres == Distinct([i \in DOMAIN matches |-> Str(matches[i][1])])
        tempo_hints == [i \in DOMAIN matches |-> matches[i][3]]
        time_context == TimeContext(time_patterns)
        time_moods == TIME_MOOD_MAP[time_context]
        detected_moods == [i \in DOMAIN matches |-> Str(matches[i][2])]
                            \o [i \in DOMAIN time_moods |-> Str(time_moods[i])]
        dominant_tempo == IF tempo_hints # <<>> THEN DominantTempo(tempo_hints) ELSE "moderate"
        energy == [fast |-> "high", moderate |-> "medium", slow |-> "low"][dominant_tempo]
        korean_count == DictGet(topic_analysis.language_breakdown, "korean", 0)
        english_count == DictGet(topic_analysis.language_breakdown, "english", 0)
        lang_pref == IF korean_count > english_count * 2 THEN "korean"
                     ELSE IF english_count > korean_count * 2 THEN "english"
                     ELSE "mixed"
        detected_genres ==
            IF genres # <<>> THEN genres
            ELSE IF \E i \in DOMAIN topic_analysis.categories : topic_analysis.categories[i] = "music"
                 THEN <<Str("Pop"), Str("Indie")>>
                 ELSE <<Str("Lo-fi"), Str("Ambient")>>
    IN  TasteProfile(Take(detected_genres, 3), KeptMoods(detected_moods),
                     energy, dominant_tempo, time_context, lang_pref)

\* the first of the texts that is no longer than 195, else the last
RECURSIVE FirstThatFits(_)
FirstThatFits(texts) ==
    IF Len(texts) = 1 \/ StrLen(texts[1]) <= 195 THEN texts[1]
    ELSE FirstThatFits(Tail(texts))

generate_suno_prompt(taste_profile) ==
    LET genres == Join(taste_profile.primary_genres)
        moods == Join(Take(taste_profile.mood_keywords, 3))
        tempo == DictGet(BPM_MAP, taste_profile.tempo_preference, Str("100 BPM"))
        primary_genre == IF taste_profile.primary_genres # <<>>
                         THEN taste_profile.primary_genres[1] ELSE Str("Pop")
        instruments == DictGet(INSTRUMENT_MAP, primary_genre, <<"piano", "guitar", "drums">>)
    IN  SunoPrompt(genres, moods, tempo, instruments,
                   FirstThatFits(<<genres \o moods \o tempo \o instruments,
                                   genres \o moods \o tempo,
                                   genres \o moods>>))

_create_energy_variation(taste_profile, base) ==
    LET energy == taste_profile.energy_level
        new_tempo == IF energy = "low" THEN Str("90-110 BPM")
                     ELSE IF energy = "high" THEN Str("60-75 BPM")
                     ELSE Str("120-140 BPM")
        new_mood == IF energy = "low" THEN <<"uplifting", "energetic">>
                    ELSE IF energy = "high" THEN <<"calm", "peaceful">>
                    ELSE <<"powerful", "intense">>
    IN  SunoPrompt(base.style_tags, new_mood, new_tempo, base.instruments,
                   FirstThatFits(<<base.style_tags \o new_mood \o new_tempo \o base.instruments,
                                   base.style_tags \o new_mood \o new_tempo>>))

mood_contrasts ==
    (Str("chill") :> <<"upbeat", "happy">>)
    @@ (Str("energetic") :> <<"mellow", "laid-back">>)
    @@ (Str("emotional") :> <<"confident", "triumphant">>)
    @@ (Str("smooth") :> <<"edgy", "bold">>)
    @@ (Str("dreamy") :> <<"grounded", "rhythmic">>)

_create_mood_variation(taste_profile, base) ==
    LET current_moods == Split(base.mood)
        new_moods == [i \in DOMAIN current_moods |->
                        DictGet(mood_contrasts, LowerStr(current_moods[i]), current_moods[i])]
        new_mood == Join(Take(new_moods, 2))
    IN  SunoPrompt(base.style_tags, new_mood, base.tempo_bpm, base.instruments,
                   FirstThatFits(<<base.style_tags \o new_mood \o base.tempo_bpm \o base.instruments,
                                   base.style_tags \o new_mood \o base.tempo_bpm>>))

alt_instruments ==
    (<<"vinyl crackle", "mellow piano", "soft drums">>
        :> <<"warm synth pads", "gentle guitar", "subtle percussion">>)
    @@ (<<"piano", "upright bass", "brushed drums", "saxophone">>
        :> <<"electric piano", "acoustic bass", "brushes", "trumpet">>)
    @@ (<<"808 bass", "trap hi-hats", "synth pads">>
        :> <<"deep bass", "minimal drums", "vocal chops">>)
    @@ (<<"synth", "punchy drums", "bass drops", "vocal layers">>
        :> <<"guitar riffs", "live drums", "bass groove", "harmonies">>)
    @@ (<<"acoustic guitar", "soft synths", "ambient pads">>
        :> <<"piano", "strings", "gentle electronic elements">>)

_create_instrument_variation(taste_profile, base) ==
    LET new_instruments ==
            DictGet(alt_instruments, base.instruments,
                    <<"piano", "soft synths", "ambient textures", "gentle percussion">>)
    IN  SunoPrompt(base.style_tags, base.mood, base.tempo_bpm, new_instruments,
                   FirstThatFits(<<base.style_tags \o base.mood \o base.tempo_bpm \o new_instruments,
                                   base.style_tags \o base.mood \o base.tempo_bpm>>))

\* genre -> <<fusion style, fusion mood>>
genre_fusions ==
    (Str("Lo-fi") :> <<Str("Lo-fi Jazz"), <<"smooth", "sophisticated">>>>)
    @@ (Str("Jazz") :> <<Str("Jazz Fusion"), <<"groovy", "experimental">>>>)
    @@ (Str("Hip-hop") :> <<Str("Hip-hop Soul"), <<"soulful", "rhythmic">>>>)
    @@ (Str("K-pop") :> <<Str("K-pop R&B"), <<"smooth", "melodic">>>>)
    @@ (Str("Pop") :> <<Str("Electropop"), <<"modern", "synth-driven">>>>)
    @@ (Str("Indie") :> <<Str("Indie Electronic"), <<"atmospheric", "textured">>>>)
    @@ (Str("EDM") :> <<Str("Future Bass"), <<"melodic", "emotional">>>>)
    @@ (Str("Rock") :> <<Str("Alternative Rock"), <<"atmospheric", "dynamic">>>>)
    @@ (Str("Classical") :> <<Str("Neoclassical"), <<"cinematic", "epic">>>>)
    @@ (Str("Ballad") :> <<Str("Soul Ballad"), <<"deep", "expressive">>>>)

_create_genre_fusion_variation(taste_profile, base) ==
    LET current_genres == Split(base.style_tags)
        primary == current_genres[1]
        fusion == DictGet(genre_fusions, primary,
                          <<Str(primary[1] \o " Fusion"), <<"fresh", "unique">>>>)
        fusion_style == fusion[1]
        fusion_mood == fusion[2]
    IN  SunoPrompt(fusion_style, fusion_mood, base.tempo_bpm, base.instruments,
                   FirstThatFits(<<fusion_style \o fusion_mood \o base.tempo_bpm \o base.instruments,
                                   fusion_style \o fusion_mood \o base.tempo_bpm>>))

\* a list of strategies that starts with the mood contrast
VariationMoodFirst(i, taste_profile, base) ==
    CASE i = 1 -> _create_mood_variation(taste_profile, base)
      [] i = 2 -> _create_energy_variation(taste_profile, base)
      [] i = 3 -> _create_instrument_variation(taste_profile, base)
      [] i = 4 -> _create_genre_fusion_variation(taste_profile, base)

\* variations[i - 1](taste_profile, base_prompt)
Variation(i, taste_profile, base) ==
    CASE i = 1 -> _create_energy_variation(taste_profile, base)
      [] i = 2 -> _create_mood_variation(taste_profile, base)
      [] i = 3 -> _create_instrument_variation(taste_profile, base)
      [] i = 4 -> _create_genre_fusion_variation(taste_profile, base)

ClampCountToFour(count) == Max2(1, Min2(4, count))

\* max(1, min(5, count))
ClampCount(count) == Max2(1, Min2(5, count))

generate_multiple_prompts(taste_profile, count) ==
    LET clamped == ClampCount(count)
        base_prompt == generate_suno_prompt(taste_profile)
    IN  IF clamped = 1 THEN <<base_prompt>>
        ELSE <<base_prompt>>
             \o [i \in 1..(Min2(clamped, 4 + 1) - 1) |-> Variation(i, taste_profile, base_prompt)]

\* ------------------------------------------------------------ server.py: the cache file

AbsentFile == [kind |-> "absent", file_path |-> None, entries |-> <<>>]

\* a cache file that json.loads() rejects, such as one cut short while written
TruncatedFile == [kind |-> "malformed", file_path |-> None, entries |-> <<>>]

\* a cache entry that does not keep the URL of the video
CacheEntryWithoutUrl(e) ==
    [title |-> e.title, titleUrl |-> None, time |-> isoformat(e.time),
     subtitles |-> [i \in DOMAIN e.subtitles |->
                      [name |-> e.subtitles[i].name, url |-> e.subtitles[i].url]]]

\* the dict _save_cache writes for one entry
CacheEntry(e) ==
    [title |-> e.title, titleUrl |-> e.titleUrl, time |-> isoformat(e.time),
     subtitles |-> [i \in DOMAIN e.subtitles |->
                      [name |-> e.subtitles[i].name, url |-> e.subtitles[i].url]]]

SnapshotFile(path, es) ==
    [kind |-> "snapshot", file_path |-> path,
     entries |-> [i \in DOMAIN es |-> CacheEntry(es[i])]]

\* the failures of CACHE_FILE.write_text(): "open" fails before the file is
\* touched, "write" after it was truncated; "none" writes
SaveFaults == {"none", "open", "write"}

\* a save that leaves a snapshot that is already on disk as it is
_save_cache_unless_saved(st_entries, st_file_path, disk, fault) ==
    IF st_entries = None THEN [ok |-> FALSE, file |-> disk]
    ELSE IF fault = "open" THEN [ok |-> FALSE, file |-> disk]
    ELSE IF fault = "write" THEN [ok |-> FALSE, file |-> TruncatedFile]
    ELSE IF disk.kind = "snapshot" THEN [ok |-> TRUE, file |-> disk]
    ELSE [ok |-> TRUE, file |-> SnapshotFile(st_file_path, st_entries[1])]

\* returns [ok, file]: the boolean returned and the cache file afterwards
_save_cache(st_entries, st_file_path, disk, fault) ==
    IF st_entries = None THEN [ok |-> FALSE, file |-> disk]
    ELSE IF fault = "open" THEN [ok |-> FALSE, file |-> disk]
    ELSE IF fault = "write" THEN [ok |-> FALSE, file |-> TruncatedFile]
    ELSE [ok |-> TRUE, file |-> SnapshotFile(st_file_path, st_entries[1])]

\* the WatchHistoryEntry _load_cache builds from one cached dict
EntryFromCache(c) ==
    WatchHistoryEntry(DefaultHeader, c.title, c.titleUrl,
                      [i \in DOMAIN c.subtitles |->
                          ChannelInfo(c.subtitles[i].name, c.subtitles[i].url)],
                      fromisoformat(c.time).val)

\* returns [ok, entries, file_path]: the boolean returned and the state afterwards;
\* read_fault: CACHE_FILE.read_text() raises
_load_cache(st_entries, st_file_path, disk, read_fault) ==
    LET unchanged == [ok |-> FALSE, entries |-> st_entries, file_path |-> st_file_path]
    IN  IF disk.kind = "absent" THEN unchanged
        ELSE IF read_fault \/ disk.kind = "malformed" THEN unchanged
        ELSE IF \E i \in DOMAIN disk.entries : fromisoformat(disk.entries[i].time).exc # "none"
        THEN unchanged
        ELSE [ok |-> TRUE,
              entries |-> Some([i \in DOMAIN disk.entries |-> EntryFromCache(disk.entries[i])]),
              file_path |-> disk.file_path]

\* a clear that reports success and leaves the cache file where it is
_clear_cache_keeping_file(disk, unlink_fault) == [ok |-> TRUE, file |-> disk]

\* returns [ok, file]; unlink_fault: CACHE_FILE.unlink() raises
_clear_cache(disk, unlink_fault) ==
    IF disk.kind = "absent" THEN [ok |-> TRUE, file |-> disk]
    ELSE IF unlink_fault THEN [ok |-> FALSE, file |-> disk]
    ELSE [ok |-> TRUE, file |-> AbsentFile]

\* ------------------------------------------------------------ server.py: results

\* a returned dict without an "error" key; tag is its "status", if it has one
Result(op, tag, payload) == [op |-> op, kind |-> "result", tag |-> tag, payload |-> payload]

\* a returned dict with an "error" key
Error(op, tag) == [op |-> op, kind |-> "error", tag |-> tag, payload |-> <<>>]

\* an exception that leaves the handler
Raise(op, exc) == [op |-> op, kind |-> "raised", tag |-> exc, payload |-> <<>>]

\* {"error": "Please call analyze_watch_history first to load data"}
NoDataLoaded(op) == Error(op, "NoDataLoaded")

\* ------------------------------------------------------------ history variables

\* loaded:  a load call returned since the session started or was last cleared
\* cleared: clear_cache succeeded and analyze_watch_history was not called since
\* trip:    "saved" after analyze_watch_history returned, "lost" once the process
\*          restarted after that, "restored" once load_cached_data ran after that;
\*          path, entries: the state that load left; wrote, read: whether the
\*          cache write of that load and the cache read of the restore succeeded
\* io_failed: a write or a delete of the cache file failed since the process started
NoTrip ==
    [phase |-> "none", path |-> None, entries |-> <<>>, wrote |-> FALSE, read |-> FALSE]

InitHist == [loaded |-> FALSE, cleared |-> FALSE, trip |-> NoTrip, io_failed |-> FALSE]

\* ------------------------------------------------------------ server.py: load, restore, clear

NoCall == [op |-> "none", kind |-> "none", tag |-> "", payload |-> <<>>]

\* the dict analyze_watch_history returns
LoadPayload(stats) ==
    [total_videos |-> stats.total_videos,
     unique_channels |-> stats.unique_channels,
     date_range |-> <<DateOf(stats.date_range_start), DateOf(stats.date_range_end)>>,
     top_channels |-> Take(stats.top_channels, 10),
     videos_per_day_avg |-> stats.videos_per_day_avg]

\* a load that extends the list loaded before instead of replacing it
StoreEntriesAppend(st_entries, parsed) == Some(Get(st_entries, <<>>) \o parsed)

\* _state["entries"] = entries: the list parsed replaces what was loaded before
StoreEntries(st_entries, parsed) == Some(parsed)

analyze_watch_history ==
    \E path \in Paths, fault \in SaveFaults :
        LET parsed == parse_watch_history(path) IN
        IF parsed.exc # "none"
        THEN /\ result' = Raise("analyze_watch_history", parsed.exc)
             /\ hist' = [hist EXCEPT !.cleared = FALSE, !.trip = NoTrip]
             /\ UNCHANGED <<entries, file_path, analysis_cache, cache_file, arg, ret>>
        ELSE LET saved == _save_cache(StoreEntries(entries, parsed.val), Some(path),
                                      cache_file, fault)
                 stats == analyze_watch_statistics(parsed.val)
             IN  /\ entries' = StoreEntries(entries, parsed.val)
                 /\ file_path' = Some(path)
                 /\ cache_file' = saved.file
                 /\ result' = IF stats.exc # "none"
                              THEN Raise("analyze_watch_history", stats.exc)
                              ELSE Result("analyze_watch_history", "", LoadPayload(stats.val))
                 /\ hist' = [loaded |-> hist.loaded \/ stats.exc = "none",
                             cleared |-> FALSE,
                             trip |-> IF stats.exc = "none"
                                      THEN [phase |-> "saved", path |-> Some(path),
                                            entries |-> parsed.val, wrote |-> saved.ok,
                                            read |-> FALSE]
                                      ELSE NoTrip,
                             io_failed |-> hist.io_failed \/ ~saved.ok]
                 /\ UNCHANGED <<analysis_cache, arg, ret>>

load_cached_data ==
    \E read_fault \in BOOLEAN :
        LET loaded == _load_cache(entries, file_path, cache_file, read_fault)
            stats == analyze_watch_statistics(loaded.entries[1])
            trip == IF hist.trip.phase \in {"lost", "restored"}
                    THEN [hist.trip EXCEPT !.phase = "restored", !.read = ~read_fault]
                    ELSE hist.trip
        IN  IF loaded.ok
            THEN /\ entries' = loaded.entries
                 /\ file_path' = loaded.file_path
                 /\ result' = IF stats.exc # "none"
                              THEN Raise("load_cached_data", stats.exc)
                              ELSE Result("load_cached_data", "loaded",
                                          [file_path |-> loaded.file_path,
                                           total_videos |-> stats.val.total_videos,
                                           unique_channels |-> stats.val.unique_channels])
                 /\ hist' = [hist EXCEPT !.loaded = hist.loaded \/ stats.exc = "none",
                                         !.trip = trip]
                 /\ UNCHANGED <<analysis_cache, cache_file, arg, ret>>
            ELSE /\ result' = Result("load_cached_data", "no_cache", <<>>)
                 /\ hist' = [hist EXCEPT !.trip = trip]
                 /\ UNCHANGED <<entries, file_path, analysis_cache, cache_file, arg, ret>>

clear_cache ==
    \E unlink_fault \in BOOLEAN :
        LET cleared == _clear_cache(cache_file, unlink_fault) IN
        IF cleared.ok
        THEN /\ entries' = None
             /\ file_path' = None
             /\ cache_file' = cleared.file
             /\ result' = Result("clear_cache", "cleared", <<>>)
             /\ hist' = [loaded |-> FALSE, cleared |-> TRUE, trip |-> NoTrip,
                         io_failed |-> hist.io_failed]
             /\ UNCHANGED <<analysis_cache, arg, ret>>
        ELSE /\ result' = Result("clear_cache", "error", <<>>)
             /\ hist' = [hist EXCEPT !.io_failed = TRUE]
             /\ UNCHANGED <<entries, file_path, analysis_cache, cache_file, arg, ret>>

\* the process ends and starts again: _state is built anew, the cache file stays
Restart ==
    /\ entries' = None
    /\ file_path' = None
    /\ analysis_cache' = <<>>
    /\ result' = NoCall
    /\ hist' = [hist EXCEPT !.loaded = FALSE,
                            !.io_failed = FALSE,
                            !.trip = IF hist.trip.phase \in {"saved", "lost", "restored"}
                                     THEN [hist.trip EXCEPT !.phase = "lost"]
                                     ELSE NoTrip]
    /\ UNCHANGED <<cache_file, arg, ret>>

\* ------------------------------------------------------------ server.py: analyses

\* an analysis tool answers r and writes nothing
Answer(r) ==
    /\ result' = r
    /\ UNCHANGED <<entries, file_path, analysis_cache, cache_file, hist, arg, ret>>

Limits == {1, 20}

\* get_top_topics without its "entries is None" guard: analyze_topics iterates None
get_top_topics_unguarded ==
    \E limit \in Limits :
        Answer(IF entries = None THEN Raise("get_top_topics", "TypeError")
               ELSE Result("get_top_topics", "", analyze_topics(entries[1], limit)))

get_top_topics ==
    \E limit \in Limits :
        Answer(IF entries = None THEN NoDataLoaded("get_top_topics")
               ELSE Result("get_top_topics", "", analyze_topics(entries[1], limit)))

\* the insight strings, by what they say
TimeInsights(patterns) ==
    (IF patterns.late_night_ratio > 300 THEN <<"night owl">> ELSE <<>>)
        \o (IF patterns.weekend_ratio > 500 THEN <<"weekend watcher">> ELSE <<>>)
        \o (IF patterns.peak_hours # <<>> THEN <<"peak viewing hours">> ELSE <<>>)

get_time_patterns ==
    Answer(IF entries = None THEN NoDataLoaded("get_time_patterns")
           ELSE LET patterns == analyze_time_patterns(entries[1])
                IN  IF patterns.exc # "none" THEN Raise("get_time_patterns", patterns.exc)
                    ELSE Result("get_time_patterns", "",
                                [patterns |-> patterns.val,
                                 insight |-> IF TimeInsights(patterns.val) = <<>>
                                             THEN <<"Balanced viewing patterns">>
                                             ELSE TimeInsights(patterns.val)]))

\* the "suno_prompt" object of a result
PromptFields(p) ==
    [style |-> p.style_tags, mood |-> p.mood, tempo |-> p.tempo_bpm,
     instruments |-> p.instruments, full_prompt |-> p.full_prompt]

generate_music_prompt ==
    Answer(IF entries = None THEN NoDataLoaded("generate_music_prompt")
           ELSE LET topic_analysis == analyze_topics(entries[1], 20)
                    time_patterns == analyze_time_patterns(entries[1])
                IN  IF time_patterns.exc # "none"
                    THEN Raise("generate_music_prompt", time_patterns.exc)
                    ELSE LET taste_profile == build_taste_profile(topic_analysis,
                                                                  time_patterns.val)
                             suno_prompt == generate_suno_prompt(taste_profile)
                         IN  Result("generate_music_prompt", "",
                                    [taste_profile |->
                                        [primary_genres |-> taste_profile.primary_genres,
                                         mood_keywords |-> taste_profile.mood_keywords,
                                         energy_level |-> taste_profile.energy_level,
                                         time_context |-> taste_profile.time_context,
                                         language_preference |->
                                            taste_profile.language_preference],
                                     suno_prompt |-> PromptFields(suno_prompt)]))

ChannelQueries == {"chana", "Chan", "", "nobody"}

\* channel_name.lower() in e.channel_name.lower(), for the queries above and the
\* channel names of the input files
QueryMatches(query, name) ==
    CASE query = "" -> TRUE
      [] query = "Chan" -> name \in {"ChanA", "ChanB"}
      [] query = "chana" -> name = "ChanA"
      [] OTHER -> FALSE

get_channel_stats ==
    \E query \in ChannelQueries :
        Answer(IF entries = None THEN NoDataLoaded("get_channel_stats")
               ELSE LET channel_entries ==
                            SelectSeq(entries[1],
                                      LAMBDA e : HasChannel(e)
                                                 /\ QueryMatches(query, channel_name(e)[1]))
                        timestamps == [i \in DOMAIN channel_entries |-> channel_entries[i].time]
                        hours == [i \in DOMAIN timestamps |-> HourOf(timestamps[i])]
                        days == [i \in DOMAIN timestamps |-> DayNameOf(timestamps[i])]
                    IN  IF channel_entries = <<>> THEN Error("get_channel_stats", "NotFound")
                        ELSE IF MixedAwareness(timestamps)
                        THEN Raise("get_channel_stats", "TypeError")
                        ELSE Result("get_channel_stats", "",
                                    [channel |-> channel_name(channel_entries[1])[1],
                                     total_videos |-> Len(channel_entries),
                                     first_watched |-> isoformat(MinTime(timestamps)),
                                     last_watched |-> isoformat(MaxTime(timestamps)),
                                     viewing_period_days |->
                                        DaysBetween(MinTime(timestamps), MaxTime(timestamps)),
                                     peak_hours |-> Keys(most_common(hours, 3)),
                                     peak_days |-> Keys(most_common(days, 2)),
                                     hourly_distribution |-> CounterItems(hours),
                                     daily_distribution |-> CounterItems(days)]))

\* the growth of the second half of the months over the first: <<label, tenths of a percent>>
GrowthTrend(trends) ==
    LET half == Len(trends) \div 2
        first_half == SeqSum([i \in 1..half |-> trends[i].video_count])
        second_half == SeqSum([i \in 1..(Len(trends) - half) |-> trends[half + i].video_count])
    IN  IF Len(trends) < 2 THEN <<"insufficient data", 0>>
        ELSE IF first_half <= 0 THEN <<"stable", 0>>
        ELSE <<IF (second_half - first_half) * 100 > 10 * first_half THEN "increasing"
               ELSE IF (second_half - first_half) * 100 < -10 * first_half THEN "decreasing"
               ELSE "stable",
               RoundDiv((second_half - first_half) * 1000, first_half)>>

get_monthly_trends ==
    Answer(IF entries = None THEN NoDataLoaded("get_monthly_trends")
           ELSE LET trends == analyze_monthly_trends(entries[1], 3)
                IN  Result("get_monthly_trends", "",
                           [months |-> trends,
                            total_months |-> Len(trends),
                            trend |-> GrowthTrend(trends)[1],
                            growth_percent |-> GrowthTrend(trends)[2]]))

\* _generate_time_insights: <<slot, top category>> for each slot
_generate_time_insights(correlations) ==
    LET counted == SelectSeq(correlations, LAMBDA c : c.video_count > 0)
    IN  [i \in DOMAIN counted |->
            <<counted[i].time_slot,
              IF counted[i].top_categories # <<>> THEN counted[i].top_categories[1]
              ELSE "general">>]

get_content_by_time ==
    Answer(IF entries = None THEN NoDataLoaded("get_content_by_time")
           ELSE LET correlations == analyze_content_by_time(entries[1], 5)
                IN  Result("get_content_by_time", "",
                           [time_slots |-> correlations,
                            insights |-> _generate_time_insights(correlations)]))

Counts == {0, 3, 10}

PromptLabels ==
    <<"Main Style", "Energy Variation", "Mood Variation", "Instrument Variation",
      "Genre Fusion">>

generate_music_prompts ==
    \E count \in Counts :
        Answer(IF entries = None THEN NoDataLoaded("generate_music_prompts")
               ELSE LET topic_analysis == analyze_topics(entries[1], 20)
                        time_patterns == analyze_time_patterns(entries[1])
                    IN  IF time_patterns.exc # "none"
                        THEN Raise("generate_music_prompts", time_patterns.exc)
                        ELSE LET taste_profile == build_taste_profile(topic_analysis,
                                                                      time_patterns.val)
                                 prompts == generate_multiple_prompts(taste_profile, count)
                             IN  Result("generate_music_prompts", "",
                                        [prompts |->
                                            [i \in DOMAIN prompts |->
                                                [label |-> PromptLabels[i],
                                                 prompt |-> PromptFields(prompts[i])]],
                                         count |-> Len(prompts)]))

detect_phases ==
    Answer(IF entries = None THEN NoDataLoaded("detect_phases")
           ELSE LET phases == detect_watching_phases(entries[1], 14)
                IN  IF phases.exc # "none" THEN Raise("detect_phases", phases.exc)
                    ELSE Result("detect_phases", "",
                                [phases |-> phases.val, total_phases |-> Len(phases.val)]))

get_diversity_score ==
    Answer(IF entries = None THEN NoDataLoaded("get_diversity_score")
           ELSE Result("get_diversity_score", "", calculate_diversity_score(entries[1])))

Formats == {"markdown", "json", "JSON"}

\* the report holds the same analyses in either format
export_analysis ==
    \E format \in Formats :
        Answer(IF entries = None THEN NoDataLoaded("export_analysis")
               ELSE LET stats == analyze_watch_statistics(entries[1])
                        topics == analyze_topics(entries[1], 20)
                        patterns == analyze_time_patterns(entries[1])
                        diversity == calculate_diversity_score(entries[1])
                    IN  IF stats.exc # "none" THEN Raise("export_analysis", stats.exc)
                        ELSE IF patterns.exc # "none" THEN Raise("export_analysis", patterns.exc)
                        ELSE Result("export_analysis", "",
                                    [format |-> IF format \in {"json", "JSON"} THEN "json"
                                                ELSE "markdown",
                                     statistics |-> LoadPayload(stats.val),
                                     keywords |-> Take(topics.keywords, 10),
                                     categories |-> topics.categories,
                                     time_patterns |-> patterns.val,
                                     diversity |-> <<diversity.overall_score,
                                                     diversity.interpretation>>]))

\* the first suggestion of every category of the table that is not among categories
_suggest_exploration(categories) ==
    LET exploration_order == <<"music", "gaming", "tech", "education", "entertainment">>
        fresh == SelectSeq(exploration_order,
                           LAMBDA c : \A i \in DOMAIN categories : categories[i] # c)
    IN  IF fresh = <<>> THEN <<"Explore new content categories">> ELSE Take(fresh, 5)

\* the keys of the suggestions _suggest_by_time makes
_suggest_by_time(patterns) ==
    LET keys == (IF patterns.late_night_ratio > 300 THEN <<"late_night">> ELSE <<>>)
                    \o (IF patterns.weekend_ratio > 500 THEN <<"weekend">> ELSE <<>>)
                    \o (IF \E i \in DOMAIN patterns.peak_hours : patterns.peak_hours[i] < 10
                        THEN <<"morning">> ELSE <<>>)
    IN  IF keys = <<>> THEN <<"general">> ELSE keys

\* payload: the favorites and the suggestions made from the topics and the time patterns
suggest_content ==
    Answer(IF entries = None THEN NoDataLoaded("suggest_content")
           ELSE LET topics == analyze_topics(entries[1], 20)
                    patterns == analyze_time_patterns(entries[1])
                IN  IF patterns.exc # "none" THEN Raise("suggest_content", patterns.exc)
                    ELSE Result("suggest_content", "",
                                [current_favorites |-> Keys(most_common(ChannelsOf(entries[1]), 5)),
                                 explore_new |-> _suggest_exploration(topics.categories),
                                 time_based |-> _suggest_by_time(patterns.val)]))

AnalysisTools ==
    {"get_top_topics", "get_time_patterns", "generate_music_prompt", "get_channel_stats",
     "get_monthly_trends", "get_content_by_time", "generate_music_prompts", "detect_phases",
     "get_diversity_score", "export_analysis", "suggest_content"}

\* ------------------------------------------------------------ the session

\* no analyzer was called yet
NotCalled == [fn |-> "none", out |-> Returned(<<>>)]

Init ==
    /\ entries = None
    /\ file_path = None
    /\ analysis_cache = <<>>
    /\ cache_file = AbsentFile
    /\ result = NoCall
    /\ hist = InitHist
    /\ arg = <<>>
    /\ ret = NotCalled

Next ==
    \/ analyze_watch_history
    \/ load_cached_data
    \/ clear_cache
    \/ Restart
    \/ get_top_topics
    \/ get_time_patterns
    \/ generate_music_prompt
    \/ get_channel_stats
    \/ get_monthly_trends
    \/ get_content_by_time
    \/ generate_music_prompts
    \/ detect_phases
    \/ get_diversity_score
    \/ export_analysis
    \/ suggest_content

Spec == Init /\ [][Next]_vars

\* ------------------------------------------------------------ the analyzers, called directly

ItemEmptyName ==
    RawItem(Some("YouTube"), Some(<<"Watched", "vlog">>), Some("u8"),
            Some(TimeStr(130, "Z")), <<RawSub(Some(""), None)>>)

\* the entries the collections are made of
SampleEntries ==
    {ParseItem(item)[1] :
        item \in {ItemLofi, ItemGame, ItemNoTitle, ItemNoName, ItemNaive, ItemNaiveLate,
                  ItemEmptyName}}

MaxLen == 3

\* every collection of at most MaxLen sample entries, in every order
Collections == UNION {[1..n -> SampleEntries] : n \in 0..MaxLen}

Call(fn, out) ==
    /\ ret = NotCalled
    /\ ret' = [fn |-> fn, out |-> out]
    /\ UNCHANGED <<entries, file_path, analysis_cache, cache_file, result, hist, arg>>

CallStatistics == Call("analyze_watch_statistics", analyze_watch_statistics(arg))

CallDiversity == Call("calculate_diversity_score", Returned(calculate_diversity_score(arg)))

CallTimePatterns == Call("analyze_time_patterns", analyze_time_patterns(arg))

CallMonthlyTrends == Call("analyze_monthly_trends", Returned(analyze_monthly_trends(arg, 3)))

CallContentByTime == Call("analyze_content_by_time", Returned(analyze_content_by_time(arg, 5)))

CallPhases == Call("detect_watching_phases", detect_watching_phases(arg, 14))

InitAnalyzers ==
    /\ entries = None
    /\ file_path = None
    /\ analysis_cache = <<>>
    /\ cache_file = AbsentFile
    /\ result = NoCall
    /\ hist = InitHist
    /\ arg \in Collections
    /\ ret = NotCalled

NextAnalyzers ==
    \/ CallStatistics
    \/ CallDiversity
    \/ CallTimePatterns
    \/ CallMonthlyTrends
    \/ CallContentByTime
    \/ CallPhases

SpecAnalyzers == InitAnalyzers /\ [][NextAnalyzers]_vars

\* ------------------------------------------------------------ the diversity score on larger collections

BusyChannels == {"ChanA", "ChanB"}

QuietChannels == {"ChanC", "ChanD", "ChanE"}

ChannelOrder == <<"ChanA", "ChanB", "ChanC", "ChanD", "ChanE">>

MaxBusy == 7

MaxQuiet == 2

MaxNoChannel == 1

\* n entries of one channel; name = None: entries without a channel
EntriesOf(name, n) ==
    [i \in 1..n |->
        WatchHistoryEntry(DefaultHeader, <<"Watched", "mix">>, None,
                          IF name = None THEN <<>> ELSE <<ChannelInfo(name[1], None)>>,
                          [h |-> 0, aware |-> TRUE, off |-> 0])]

RECURSIVE Blocks(_, _)
Blocks(counts, k) ==
    IF k > Len(ChannelOrder) THEN <<>>
    ELSE EntriesOf(Some(ChannelOrder[k]), counts[ChannelOrder[k]]) \o Blocks(counts, k + 1)

\* the collections with counts[c] entries of channel c, then n without a channel
ChannelCollections ==
    {Blocks(busy @@ quiet, 1) \o EntriesOf(None, n) :
        busy \in [BusyChannels -> 0..MaxBusy],
        quiet \in [QuietChannels -> 0..MaxQuiet],
        n \in 0..MaxNoChannel}

InitDiversity ==
    /\ entries = None
    /\ file_path = None
    /\ analysis_cache = <<>>
    /\ cache_file = AbsentFile
    /\ result = NoCall
    /\ hist = InitHist
    /\ arg \in ChannelCollections
    /\ ret = NotCalled

NextDiversity == CallDiversity

SpecDiversity == InitDiversity /\ [][NextDiversity]_vars

\* ------------------------------------------------------------ keywords of titles

TitleLofi == <<"Lo-fi", "beats", "to", "study", "to">>

TitleJazz == <<"ko:jaejeu", "piano", "music">>

TitleKpop == <<"K-pop", "hits", "2024">>

TitleHiphop == <<"hip-hop", "ko:raep", "JAZ">>

TitleGuitar == <<"ko:tonggita", "ko:eseo", "Daily">>

Titles == {TitleLofi, TitleJazz, TitleKpop, TitleHiphop, TitleGuitar}

MaxTitles == 3

TitleLists == UNION {[1..n -> Titles] : n \in 0..MaxTitles}

\* the words normalize_keyword is called on: every key of the lookup, words
\* written with capitals and words the table does not have
Words ==
    UNION {LookupKeys(k) : k \in DOMAIN SYNONYMS}
        \cup {"K-POP", "K-pop", "Lo-fi", "JAZ", "Jaz", "Jazz", "Daily", "UPPER", "Watched"}
        \cup {"unknown", "upper", "beats", "study", "ko:eumak"}

CallNormalize == Call("normalize_keyword", Returned(normalize_keyword(arg.word)))

CallExtract ==
    Call("extract_keywords_simple", Returned(extract_keywords_simple(arg.titles, 20)))

InitKeywords ==
    /\ entries = None
    /\ file_path = None
    /\ analysis_cache = <<>>
    /\ cache_file = AbsentFile
    /\ result = NoCall
    /\ hist = InitHist
    /\ \/ arg \in [word : Words, titles : {<<>>}]
       \/ arg \in [word : {"unknown"}, titles : TitleLists]
    /\ ret = NotCalled

NextKeywords ==
    \/ CallNormalize
    \/ CallExtract

SpecKeywords == InitKeywords /\ [][NextKeywords]_vars

\* ------------------------------------------------------------ prompts of taste profiles

\* a genre or mood as long as a sentence
LongTag == "Progressive Symphonic Post-Rock with Traditional Korean Court Influence"

GenreTags == {Str("Lo-fi"), Str("Jazz"), Str("Shoegaze"), Str(LongTag)}

MoodTags == {Str("chill"), Str("Dreamy"), Str(LongTag)}

MaxGenres == 2

MaxMoods == 2

GenreLists == UNION {[1..n -> GenreTags] : n \in 0..MaxGenres}

MoodLists == UNION {[1..n -> MoodTags] : n \in 0..MaxMoods}

Energies == {"low", "medium", "high"}

Tempos == {"slow", "allegro"}

\* profiles with more genres and moods than the generator keeps
ManyGenres ==
    TasteProfile(<<Str("K-pop"), Str("Jazz"), Str("Rock"), Str("Ballad"), Str("Indie")>>,
                 <<Str("upbeat"), Str("smooth"), Str("powerful"), Str("emotional")>>,
                 "medium", "moderate", "evening", "korean")

NoGenres == TasteProfile(<<>>, <<>>, "medium", "moderate", "afternoon", "mixed")

Profiles ==
    {TasteProfile(genres, moods, energy, tempo, "afternoon", "mixed") :
        genres \in GenreLists, moods \in MoodLists, energy \in Energies, tempo \in Tempos}
    \cup {ManyGenres}

PromptCounts == {-1, 0, 1, 2, 4, 5, 10}

\* keywords of a topic analysis: tags of MUSIC_STYLE_MAP in either case, and others
KeywordSamples == {"jazz", "Lo-fi", "edm", "ko:indi", "beats"}

MaxKeywords == 4

KeywordLists == UNION {[1..n -> {<<k, 1>> : k \in KeywordSamples}] : n \in 0..MaxKeywords}

\* sixteen keywords, the last of them the only one of MUSIC_STYLE_MAP
SixteenKeywords == [i \in 1..16 |-> IF i = 16 THEN <<"rock", 1>> ELSE <<"beats", 1>>]

LanguageBreakdowns ==
    {[korean |-> 5, english |-> 2], [korean |-> 2, english |-> 5],
     [korean |-> 2, english |-> 1], [english |-> 1], <<>>}

TopicAnalyses ==
    [keywords : KeywordLists \cup {SixteenKeywords},
     language_breakdown : LanguageBreakdowns,
     categories : {<<"music", "tech">>, <<"general">>}]

NoTopics == [keywords |-> <<>>, language_breakdown |-> <<>>, categories |-> <<"general">>]

TimePatternSamples ==
    [late_night_ratio : {300}, peak_hours : {<<>>, <<9, 20>>, <<20, 12>>, <<10, 18>>}]
        \cup {[late_night_ratio |-> 301, peak_hours |-> <<9, 20>>]}

NoPatterns == [late_night_ratio |-> 0, peak_hours |-> <<>>]

CallBuildTasteProfile ==
    Call("build_taste_profile", Returned(build_taste_profile(arg.topics, arg.patterns)))

CallGeneratePrompt ==
    Call("generate_suno_prompt", Returned(generate_suno_prompt(arg.profile)))

CallGenerateMultiple ==
    Call("generate_multiple_prompts",
         Returned(generate_multiple_prompts(arg.profile, arg.count)))

InitPrompts ==
    /\ entries = None
    /\ file_path = None
    /\ analysis_cache = <<>>
    /\ cache_file = AbsentFile
    /\ result = NoCall
    /\ hist = InitHist
    /\ \/ arg \in [profile : Profiles, count : PromptCounts,
                   topics : {NoTopics}, patterns : {NoPatterns}]
       \/ arg \in [profile : {NoGenres}, count : {3},
                   topics : TopicAnalyses, patterns : TimePatternSamples]
    /\ ret = NotCalled

NextPrompts ==
    \/ CallBuildTasteProfile
    \/ CallGeneratePrompt
    \/ CallGenerateMultiple

SpecPrompts == InitPrompts /\ [][NextPrompts]_vars

\* ------------------------------------------------------------ the analyzers over two years

\* a watched video of ChanA
ItemAt(title, h, suffix) ==
    RawItem(Some("YouTube"), Some(title), Some("u"), Some(TimeStr(h, suffix)),
            <<RawSub(Some("ChanA"), Some("cA"))>>)

\* Monday 2024-01-01 03:00, week 1
ItemJan1 == ItemAt(<<"Watched", "lofi", "beats">>, 3, "Z")

\* Wednesday 2024-01-03 10:00, without an offset
ItemJan3 == ItemAt(<<"Watched", "lofi", "mix">>, 58, "")

\* Monday 2024-01-08 05:00, week 2
ItemJan8 == ItemAt(<<"Watched", "jazz", "piano">>, 173, "Z")

\* Saturday 2024-01-20 23:00, week 3
ItemJan20 == ItemAt(<<"Watched", "lofi", "mix">>, 479, "Z")

\* Monday 2024-01-22 12:00, week 4
ItemJan22 == ItemAt(<<"Watched", "game", "stream">>, 516, "Z")

\* Sunday 2024-02-04 00:00, week 5
ItemFeb4 == ItemAt(<<"Watched", "game", "stream">>, 816, "Z")

\* Monday 2024-12-30 04:00, week 53
ItemDec30 == ItemAt(<<"Watched", "jazz", "piano">>, 8740, "Z")

\* Friday 2025-01-03 10:00, week 0 of 2025
ItemJan3NextYear == ItemAt(<<"Watched", "vlog">>, 8842, "Z")

CalendarEntries ==
    {ParseItem(item)[1] :
        item \in {ItemJan1, ItemJan3, ItemJan8, ItemJan20, ItemJan22, ItemFeb4, ItemDec30,
                  ItemJan3NextYear}}

MaxEntries == 4

CalendarCollections == UNION {[1..n -> CalendarEntries] : n \in 0..MaxEntries}

InitCalendar ==
    /\ entries = None
    /\ file_path = None
    /\ analysis_cache = <<>>
    /\ cache_file = AbsentFile
    /\ result = NoCall
    /\ hist = InitHist
    /\ arg \in CalendarCollections
    /\ ret = NotCalled

NextCalendar ==
    \/ CallTimePatterns
    \/ CallMonthlyTrends
    \/ CallPhases

SpecCalendar == InitCalendar /\ [][NextCalendar]_vars

\* ------------------------------------------------------------ the time slots at their boundaries

\* the first and the last hour of every slot, on four days
SlotHours == {0, 4, 29, 35, 60, 65, 90, 95}

SlotEntries ==
    {ParseItem(ItemAt(IF h % 2 = 0 THEN <<"Watched", "lofi", "beats">>
                      ELSE <<"Watched", "game", "stream">>, h, "Z"))[1] : h \in SlotHours}

MaxSlotEntries == 3

SlotCollections == UNION {[1..n -> SlotEntries] : n \in 0..MaxSlotEntries}

InitSlots ==
    /\ entries = None
    /\ file_path = None
    /\ analysis_cache = <<>>
    /\ cache_file = AbsentFile
    /\ result = NoCall
    /\ hist = InitHist
    /\ arg \in SlotCollections
    /\ ret = NotCalled

NextSlots == CallContentByTime

SpecSlots == InitSlots /\ [][NextSlots]_vars

\* ------------------------------------------------------------ the phase detector and its minimum

\* values of min_phase_days: below, at and above the default of 14
PhaseDays == {1, 14, 15, 100}

MaxPhaseEntries == 3

PhaseCollections == UNION {[1..n -> CalendarEntries] : n \in 0..MaxPhaseEntries}

CallPhasesWithDays ==
    Call("detect_watching_phases", detect_watching_phases(arg.entries, arg.min_phase_days))

InitPhases ==
    /\ entries = None
    /\ file_path = None
    /\ analysis_cache = <<>>
    /\ cache_file = AbsentFile
    /\ result = NoCall
    /\ hist = InitHist
    /\ arg \in [entries : PhaseCollections, min_phase_days : PhaseDays]
    /\ ret = NotCalled

NextPhases == CallPhasesWithDays

SpecPhases == InitPhases /\ [][NextPhases]_vars

\* ------------------------------------------------------------ the parser on lists of records

\* a record whose "time" is null
ItemNullTime ==
    RawItem(Some("YouTube"), Some(<<"Watched", "jazz", "piano">>), Some("u9"),
            Some(JsonNull), <<RawSub(Some("ChanA"), Some("cA"))>>)

\* a record of another product whose "time" is null
ItemSearchNullTime ==
    RawItem(Some("Search"), Some(<<"Searched", "for", "jazz">>), None, Some(JsonNull), <<>>)

\* Saturday 2024-01-06 02:00 at UTC+9, which is Friday 2024-01-05 17:00 in UTC
ItemSeoulNight ==
    RawItem(Some("YouTube"), Some(<<"Watched", "lofi", "beats">>), Some("u10"),
            Some(TimeStr(122, "+09:00")), <<RawSub(Some("ChanA"), Some("cA"))>>)

RawSamples ==
    {ItemLofi, ItemGame, ItemNoTitle, ItemSearch, ItemNoHeader, ItemBadTime, ItemNoTime,
     ItemNaive, ItemNullTime, ItemSearchNullTime, ItemSeoulNight}

MaxRecords == 3

RecordLists == UNION {[1..n -> RawSamples] : n \in 0..MaxRecords}

\* parse_watch_history of a file that holds the records
CallParse == Call("parse_watch_history", ParseRecords(arg))

InitParser ==
    /\ entries = None
    /\ file_path = None
    /\ analysis_cache = <<>>
    /\ cache_file = AbsentFile
    /\ result = NoCall
    /\ hist = InitHist
    /\ arg \in RecordLists
    /\ ret = NotCalled

NextParser == CallParse

SpecParser == InitParser /\ [][NextParser]_vars

\* ------------------------------------------------------------ claims about the session

\* C1: while the session holds no entries, a call of any analysis tool returns the
\* NoDataLoaded error dict, raises nothing, and leaves the entries, the file path
\* and the cache file as they were.
C1_NoDataIsReported ==
    [][(entries = None /\ result'.op \in AnalysisTools)
        => /\ result'.kind = "error"
           /\ result'.tag = "NoDataLoaded"
           /\ UNCHANGED <<entries, file_path, cache_file>>]_vars

\* an analysis tool was called on a session without entries, after a load and a clear
C1_Witness ==
    /\ entries = None
    /\ hist.cleared
    /\ result.op = "export_analysis"
    /\ result.kind = "error"

\* C2 (as claimed): an analysis tool returns an analysis result only if a load call
\* (analyze_watch_history or load_cached_data) has returned without failing since
\* the session started or was last cleared.
C2_ResultOnlyAfterLoad ==
    (result.op \in AnalysisTools /\ result.kind = "result") => hist.loaded

\* the entries and the file path of a cache round trip are those of the load:
\* the same entries in the same order, by title, URL, timestamp and channels
SameProjection(es, saved) ==
    /\ Len(es) = Len(saved)
    /\ \A i \in DOMAIN es :
        /\ es[i].title = saved[i].title
        /\ es[i].titleUrl = saved[i].titleUrl
        /\ es[i].time = saved[i].time
        /\ es[i].subtitles = saved[i].subtitles

Restored ==
    /\ result.kind = "result"
    /\ result.tag = "loaded"
    /\ file_path = hist.trip.path
    /\ entries # None
    /\ SameProjection(entries[1], hist.trip.entries)

C4_ClearedStaysCleared ==
    hist.cleared =>
        /\ entries = None
        /\ file_path = None
        /\ cache_file.kind = "absent"
        /\ result.op = "load_cached_data" => (result.kind = "result" /\ result.tag = "no_cache")
        /\ result.op \in AnalysisTools => (result.kind = "error" /\ result.tag = "NoDataLoaded")

\* load_cached_data was called after a clear
C4_Witness ==
    /\ hist.cleared
    /\ result.op = "load_cached_data"

\* C5 (as claimed): load_cached_data returns "loaded" or "no_cache" and never raises,
\* whatever the cache file holds.
C5_RestoreNeverRaises ==
    result.op = "load_cached_data" =>
        (result.kind = "result" /\ result.tag \in {"loaded", "no_cache"})

\* an item the parser keeps: a recognized header and a timestamp that parses
Accepted(item) ==
    /\ item.header \in {Some("YouTube"), Some("YouTube Music")}
    /\ item.time # None
    /\ item.time[1].ok

\* es are the entries of the accepted items of the file at path, in file order
EntriesOfFile(es, path) ==
    LET items == SelectSeq(Files[path].records, Accepted)
    IN  /\ Len(es) = Len(items)
        /\ \A i \in DOMAIN es :
            /\ es[i].header = items[i].header[1]
            /\ es[i].title = Get(items[i].title, <<"Unknown">>)
            /\ es[i].titleUrl = items[i].titleUrl
            /\ es[i].time.h = items[i].time[1].h
            /\ Len(es[i].subtitles) = Len(items[i].subtitles)

\* C6: when analyze_watch_history returns for a path, the entries are exactly those
\* parsed from that file and the file path is that path; and no analysis tool
\* changes the entries, the file path or the cache file.
C6_LoadReplacesAnalysesRead ==
    [][/\ (result'.op = "analyze_watch_history" /\ result'.kind = "result")
            => /\ file_path' = hist'.trip.path
               /\ entries' # None
               /\ EntriesOfFile(entries'[1], file_path'[1])
       /\ result'.op \in AnalysisTools => UNCHANGED <<entries, file_path, cache_file>>]_vars

\* a load of one.json returned in a session whose cache holds an earlier load
C6_Witness ==
    /\ result.op = "analyze_watch_history"
    /\ result.kind = "result"
    /\ file_path = Some("one.json")
    /\ cache_file.kind = "snapshot"
    /\ cache_file.file_path = Some("history.json")

\* ------------------------------------------------------------ claims about the analyzers

StatisticsAndTimePatterns == {"analyze_watch_statistics", "analyze_time_patterns"}

\* C7 (as claimed): analyze_watch_statistics and analyze_time_patterns raise
\* ValueError on a collection without entries, and return a result for every
\* collection with at least one entry.
C7_RaiseOnlyOnEmpty ==
    ret.fn \in StatisticsAndTimePatterns =>
        ret.out.exc = (IF arg = <<>> THEN "ValueError" ELSE "none")

\* the entry has no channel: no subtitle, or a first subtitle without a name
Channelless(e) == e.subtitles = <<>> \/ e.subtitles[1].name = ""

ListAnalyzers == {"analyze_monthly_trends", "analyze_content_by_time", "detect_watching_phases"}

\* C8: on a collection without entries, analyze_monthly_trends, analyze_content_by_time
\* and detect_watching_phases return an empty list; calculate_diversity_score returns
\* a score whose four numbers are 0, with a text, on a collection without entries
\* and on one where no entry has a channel; none of them raises.
C8_EmptyInputIsNoError ==
    /\ (ret.fn \in ListAnalyzers /\ arg = <<>>)
        => (ret.out.exc = "none" /\ ret.out.val = <<>>)
    /\ (ret.fn = "calculate_diversity_score" /\ \A i \in DOMAIN arg : Channelless(arg[i]))
        => /\ ret.out.exc = "none"
           /\ ret.out.val.overall_score = 0
           /\ ret.out.val.channel_entropy = 0
           /\ ret.out.val.top_channel_concentration = 0
           /\ ret.out.val.unique_ratio = 0
           /\ ret.out.val.interpretation # ""

\* the score of two entries, one without subtitles and one whose channel name is empty
C8_Witness ==
    /\ ret.fn = "calculate_diversity_score"
    /\ Len(arg) = 2
    /\ arg[1].subtitles = <<>>
    /\ arg[2].subtitles # <<>>
    /\ Channelless(arg[2])

\* the whole days between the earliest and the latest timestamp of es
SpanDays(es) ==
    LET hs == {es[i].time.h : i \in DOMAIN es}
        first == CHOOSE h \in hs : \A g \in hs : h <= g
        last == CHOOSE h \in hs : \A g \in hs : h >= g
    IN  (last - first) \div 24

\* C9 (as claimed): for every collection with at least one entry,
\* analyze_watch_statistics returns total_videos = the number of entries and
\* videos_per_day_avg = total / max(1, whole days between the earliest and the
\* latest timestamp), rounded to 2 decimals; 1 for a single entry.
C9_AveragePerDay ==
    (ret.fn = "analyze_watch_statistics" /\ arg # <<>>) =>
        /\ ret.out.exc = "none"
        /\ ret.out.val.total_videos = Len(arg)
        /\ ret.out.val.videos_per_day_avg = RoundDiv(Len(arg) * 100, Max2(1, SpanDays(arg)))
        /\ Len(arg) = 1 => ret.out.val.videos_per_day_avg = 100

\* the text of the band that holds a score given in tenths
BandOf(tenths) ==
    IF tenths >= 700 THEN "Highly diverse - you explore many different channels"
    ELSE IF tenths >= 500 THEN "Moderately diverse - you have favorites but still explore"
    ELSE IF tenths >= 300 THEN "Focused viewer - you stick to your preferred channels"
    ELSE "Very focused - you primarily watch a few channels"

\* C10 (as claimed): for every collection with at least one entry,
\* calculate_diversity_score returns overall_score and top_channel_concentration in
\* [0,100], unique_ratio in [0,1] and channel_entropy >= 0, and the interpretation
\* is the text of the band (>=70, >=50, >=30, else) that holds the overall_score
\* returned.  The band is asked for where a score was computed, that is where some
\* entry has a channel; the other collections get the zero score of C8.
C10_ScoreInItsBand ==
    (ret.fn = "calculate_diversity_score" /\ arg # <<>>) =>
        LET score == ret.out.val IN
        /\ 0 <= score.overall_score /\ score.overall_score <= 1000
        /\ 0 <= score.top_channel_concentration /\ score.top_channel_concentration <= 1000
        /\ 0 <= score.unique_ratio /\ score.unique_ratio <= 1000
        /\ score.channel_entropy >= 0
        /\ (\E i \in DOMAIN arg : ~Channelless(arg[i]))
            => score.interpretation = BandOf(score.overall_score)

\* ------------------------------------------------------------ claims about one channel

\* the entries of es that have a channel
Tagged(es) == SelectSeq(es, LAMBDA e : ~Channelless(e))

\* all entries that have a channel name the same one, and there is one
OneChannel(es) ==
    /\ Tagged(es) # <<>>
    /\ \A i \in DOMAIN Tagged(es) : Tagged(es)[i].subtitles[1].name = Tagged(es)[1].subtitles[1].name

LowestBand == "Very focused - you primarily watch a few channels"

CanonicalsOf(lw) ==
    {SYNONYMS[k][1] : k \in {j \in DOMAIN SYNONYMS :
        lw = SYNONYMS[j][1] \/ \E i \in DOMAIN SYNONYMS[j][2] : lw = SYNONYMS[j][2][i]}}

HyphenatedVariants == {"k-pop", "lo-fi", "hip-hop"}

\* the keywords of a list of <<keyword, count>>
KeywordsOf(pairs) == {pairs[i][1] : i \in DOMAIN pairs}

\* C13 (as claimed): the keywords extracted from "Lo-fi beats to study to",
\* "(jazz in Hangul) piano music", "K-pop hits 2024" include "lofi", "jazz" and
\* "kpop"; and a hyphenated variant of the synonym table that occurs in a title
\* yields its canonical tag among the keywords.
C13_VariantsAreNormalized ==
    ret.fn = "extract_keywords_simple" =>
        LET keywords == KeywordsOf(ret.out.val) IN
        /\ arg.titles = <<TitleLofi, TitleJazz, TitleKpop>>
            => {"lofi", "jazz", "kpop"} \subseteq keywords
        /\ \A i \in DOMAIN arg.titles : \A j \in DOMAIN arg.titles[i] :
            Lower(arg.titles[i][j]) \in HyphenatedVariants
                => CanonicalsOf(Lower(arg.titles[i][j])) \subseteq keywords

\* ------------------------------------------------------------ claims about prompts

\* the prompts a call of the generator returned
PromptsReturned ==
    IF ret.fn = "generate_suno_prompt" THEN <<ret.out.val>>
    ELSE IF ret.fn = "generate_multiple_prompts" THEN ret.out.val
    ELSE <<>>

\* C14 (as claimed): the full prompt of generate_suno_prompt, and of each prompt of
\* generate_multiple_prompts, is at most 200 characters long, for every profile.
C14_PromptsFit ==
    \A i \in DOMAIN PromptsReturned : StrLen(PromptsReturned[i].full_prompt) <= 200

\* C15: generate_multiple_prompts returns min(5, max(1, count)) prompts: one for a
\* count of 0 or less, five for a count of 5 or more, count prompts otherwise.
C15_CountIsClamped ==
    ret.fn = "generate_multiple_prompts" =>
        LET n == Len(ret.out.val) IN
        /\ arg.count <= 1 => n = 1
        /\ arg.count >= 5 => n = 5
        /\ arg.count \in 1..5 => n = arg.count

\* ten prompts were asked for and five returned
C15_Witness ==
    /\ ret.fn = "generate_multiple_prompts"
    /\ arg.count = 10
    /\ arg.profile = ManyGenres
    /\ Len(ret.out.val) = 5

\* C16: a profile built by build_taste_profile has 1 to 3 genres, 1 to 5 moods
\* without duplicates, an energy level of low, medium or high, the tempo that goes
\* with it (slow, moderate, fast) and a language of korean, english or mixed.
C16_ProfileIsWellFormed ==
    ret.fn = "build_taste_profile" =>
        LET profile == ret.out.val
            moods == profile.mood_keywords
        IN  /\ Len(profile.primary_genres) \in 1..3
            /\ Len(moods) \in 1..5
            /\ \A i, j \in DOMAIN moods : moods[i] = moods[j] => i = j
            /\ <<profile.tempo_preference, profile.energy_level>>
                \in {<<"fast", "high">>, <<"moderate", "medium">>, <<"slow", "low">>}
            /\ profile.language_preference \in {"korean", "english", "mixed"}

\* four keywords of four genres, two of them of the same mood: three genres and
\* five moods are kept
C16_Witness ==
    /\ ret.fn = "build_taste_profile"
    /\ arg.topics.keywords = <<<<"jazz", 1>>, <<"Lo-fi", 1>>, <<"edm", 1>>, <<"ko:indi", 1>>>>
    /\ arg.patterns.late_night_ratio = 301
    /\ Len(ret.out.val.primary_genres) = 3
    /\ Len(ret.out.val.mood_keywords) = 5
    /\ ret.out.val.energy_level = "medium"

\* ------------------------------------------------------------ claims about months, hours and weeks

\* the year and month of an entry: <<year, month>>
YearMonth(e) == <<MonthOf(e.time) \div 100, MonthOf(e.time) % 100>>

\* C17: analyze_monthly_trends returns one record for each year and month that has
\* an entry and no other, in strictly ascending order of the month key; every
\* record counts at least one video and the counts add up to the number of entries.
C17_OneRecordPerMonth ==
    ret.fn = "analyze_monthly_trends" =>
        LET trends == ret.out.val
            key(k) == <<trends[k].month \div 100, trends[k].month % 100>>
        IN  /\ {key(k) : k \in DOMAIN trends} = {YearMonth(arg[i]) : i \in DOMAIN arg}
            /\ \A k, l \in DOMAIN trends :
                k < l => \/ key(k)[1] < key(l)[1]
                         \/ key(k)[1] = key(l)[1] /\ key(k)[2] < key(l)[2]
            /\ \A k \in DOMAIN trends :
                /\ trends[k].video_count > 0
                /\ trends[k].video_count
                    = Cardinality({i \in DOMAIN arg : YearMonth(arg[i]) = key(k)})
            /\ SeqSum([k \in DOMAIN trends |-> trends[k].video_count]) = Len(arg)

\* entries of January 2025, February 2024 and twice January 2024, in that order
C17_Witness ==
    /\ ret.fn = "analyze_monthly_trends"
    /\ Len(arg) = 4
    /\ [i \in DOMAIN arg |-> MonthOf(arg[i].time)] = <<202501, 202402, 202401, 202401>>
    /\ [k \in DOMAIN ret.out.val |-> ret.out.val[k].month] = <<202401, 202402, 202501>>
    /\ ret.out.val[1].video_count = 2

\* the entries watched from 00:00 to 04:59
LateNightEntries == {i \in DOMAIN arg : (arg[i].time.h % 24) \in 0..4}

\* the entries watched on a Saturday or a Sunday (day 0 is a Monday)
WeekendEntries == {i \in DOMAIN arg : ((arg[i].time.h \div 24) % 7) \in {5, 6}}

\* C18 (as claimed): late_night_ratio is the number of entries with an hour in 0..4
\* divided by the number of entries, and weekend_ratio the number of entries of a
\* Saturday or Sunday divided by the number of entries.
C18_RatiosExact ==
    ret.fn = "analyze_time_patterns" /\ ret.out.exc = "none" =>
        /\ ret.out.val.late_night_ratio * Len(arg) = Cardinality(LateNightEntries) * 1000
        /\ ret.out.val.weekend_ratio * Len(arg) = Cardinality(WeekendEntries) * 1000

\* C18 (amended): for a non-empty collection both ratios are those quotients
\* rounded to three decimal places, and lie within [0, 1]; an entry at hour 3
\* counts as late-night, one at hour 5 does not, one of a Saturday counts as weekend.
C18_RatiosRounded ==
    ret.fn = "analyze_time_patterns" /\ arg # <<>> =>
        /\ ret.out.exc = "none"
        /\ LET late == ret.out.val.late_night_ratio
               weekend == ret.out.val.weekend_ratio
               n == Len(arg)
           IN  /\ 2 * late * n >= 2 * 1000 * Cardinality(LateNightEntries) - n
               /\ 2 * late * n <= 2 * 1000 * Cardinality(LateNightEntries) + n
               /\ 2 * weekend * n >= 2 * 1000 * Cardinality(WeekendEntries) - n
               /\ 2 * weekend * n <= 2 * 1000 * Cardinality(WeekendEntries) + n
               /\ late \in 0..1000
               /\ weekend \in 0..1000

\* an entry at 03:00 on a Monday, one at 05:00 on a Monday and one at 23:00 on a
\* Saturday: a third is late-night and a third is weekend
C18_Witness ==
    /\ ret.fn = "analyze_time_patterns"
    /\ [i \in DOMAIN arg |-> arg[i].time.h] = <<3, 173, 479>>
    /\ ret.out.val.late_night_ratio = 333
    /\ ret.out.val.weekend_ratio = 333

\* the weeks that have entries, in ascending order, each with its dominant category
WeeksOf(es) ==
    LET weeks == SortedSet({WeekOf(es[i].time) : i \in DOMAIN es})
    IN  [k \in DOMAIN weeks |->
            WeekCategory(weeks[k], SelectSeq(es, LAMBDA e : WeekOf(e.time) = weeks[k]))]

\* phase covers the weeks first..last of the list
Covers(phase, weeks, first, last) ==
    /\ phase.description[1] = last - first + 1
    /\ \A k \in first..last : weeks[k][2] = phase.dominant_categories[1]
    /\ phase.video_count = SeqSum([k \in 1..(last - first + 1) |-> weeks[first + k - 1][3]])
    /\ phase.period = <<MonthOfWeek(weeks[first][1]), MonthOfWeek(weeks[last][1])>>

\* C19 (as claimed): every phase of detect_watching_phases covers at least two
\* consecutive weeks of the list of weeks with entries, all of the same dominant
\* category; entries that all fall in one week yield the empty list.
C19_PhasesSpanTwoWeeks ==
    ret.fn = "detect_watching_phases" =>
        LET weeks == WeeksOf(arg) IN
        /\ Len(weeks) <= 1 => ret.out = Returned(<<>>)
        /\ ret.out.exc = "none" =>
            \A p \in DOMAIN ret.out.val :
                \E first, last \in DOMAIN weeks :
                    /\ first < last
                    /\ Covers(ret.out.val[p], weeks, first, last)

\* ------------------------------------------------------------ claims about the parser

\* the record has a recognized header and a timestamp that parses
IsKept(item) ==
    /\ item.header # None
    /\ item.header[1] \in {"YouTube", "YouTube Music"}
    /\ item.time # None
    /\ IsString(item.time[1])
    /\ item.time[1].ok

\* the entry is made from the record, a missing title read as "Unknown"
MadeFrom(e, item) ==
    /\ e.header = item.header[1]
    /\ e.title = (IF item.title = None THEN <<"Unknown">> ELSE item.title[1])
    /\ e.titleUrl = item.titleUrl
    /\ e.time.h = item.time[1].h
    /\ Len(e.subtitles) = Len(item.subtitles)

\* C20 (as claimed): parse_watch_history returns, in file order, one entry for each
\* record that has a recognized header and a timestamp that parses, and no other;
\* a record whose timestamp is missing or does not parse is dropped and the call
\* does not fail; a missing title becomes "Unknown".
C20_KeepsWhatParses ==
    ret.fn = "parse_watch_history" =>
        LET kept == SelectSeq(arg, IsKept) IN
        /\ ret.out.exc = "none"
        /\ Len(ret.out.val) = Len(kept)
        /\ \A i \in DOMAIN kept : MadeFrom(ret.out.val[i], kept[i])

\* ------------------------------------------------------------ claims about phases

\* the maximal runs <<first, last>> of at least two consecutive weeks of the list
\* that share their dominant category
MaximalRuns(weeks) ==
    {r \in (DOMAIN weeks) \X (DOMAIN weeks) :
        /\ r[1] < r[2]
        /\ \A k \in r[1]..r[2] : weeks[k][2] = weeks[r[1]][2]
        /\ r[1] = 1 \/ weeks[r[1] - 1][2] # weeks[r[1]][2]
        /\ r[2] = Len(weeks) \/ weeks[r[2] + 1][2] # weeks[r[1]][2]}

\* the maximal runs in the order of their first week
RunList(weeks) ==
    LET runs == MaximalRuns(weeks)
        firsts == SortedSet({r[1] : r \in runs})
    IN  [k \in DOMAIN firsts |-> CHOOSE r \in runs : r[1] = firsts[k]]

\* C21 (as claimed): when detect_watching_phases returns, its list holds exactly one
\* phase for every maximal run of at least two consecutive weeks of the same
\* dominant category, in the order of the runs, each with the category of its run
\* and a period that starts in the month of the run's first week; a run that ends
\* at the last week with entries is reported like any other.
C21_EveryRunIsOnePhase ==
    ret.fn = "detect_watching_phases" /\ ret.out.exc = "none" =>
        LET weeks == WeeksOf(arg)
            runs == RunList(weeks)
            phases == ret.out.val
        IN  /\ Len(phases) = Len(runs)
            /\ \A k \in DOMAIN runs :
                /\ phases[k].dominant_categories = <<weeks[runs[k][1]][2]>>
                /\ phases[k].period[1] = MonthOfWeek(weeks[runs[k][1]][1])

\* C22 (as claimed): every phase detect_watching_phases returns is that of a maximal
\* run of weeks of its category: video_count is the number of entries of all the
\* weeks of the run and the week count of the description is the number of weeks
\* of the run, also when the run reaches the last week with entries.
C22_PhaseCountsItsRun ==
    ret.fn = "detect_watching_phases" /\ ret.out.exc = "none" =>
        LET weeks == WeeksOf(arg) IN
        \A p \in DOMAIN ret.out.val :
            \E r \in MaximalRuns(weeks) : Covers(ret.out.val[p], weeks, r[1], r[2])

C24_TimeContextByPriority ==
    ret.fn = "build_taste_profile" =>
        LET ratio == arg.patterns.late_night_ratio
            hours == {arg.patterns.peak_hours[i] : i \in DOMAIN arg.patterns.peak_hours}
            context == ret.out.val.time_context
        IN  /\ ratio > 300 => context = "late_night"
            /\ ratio <= 300 /\ (\E h \in hours : h < 10) => context = "morning"
            /\ ratio <= 300 /\ (\A h \in hours : h >= 10) /\ (\E h \in hours : h > 18)
                => context = "evening"
            /\ ratio <= 300 /\ (\A h \in hours : h >= 10 /\ h <= 18) => context = "afternoon"

\* a ratio of exactly 0.3 with the peak hours 10 and 18 gives afternoon
C24_Witness ==
    /\ ret.fn = "build_taste_profile"
    /\ arg.patterns = [late_night_ratio |-> 300, peak_hours |-> <<10, 18>>]
    /\ ret.out.val.time_context = "afternoon"

\* the full prompt is made of the prompt's own fields by dropping the instruments
\* when all four exceed 195 characters, and the tempo too when three still do
TruncatedInSteps(p) ==
    LET four == p.style_tags \o p.mood \o p.tempo_bpm \o p.instruments
        three == p.style_tags \o p.mood \o p.tempo_bpm
        two == p.style_tags \o p.mood
    IN  p.full_prompt = IF StrLen(four) <= 195 THEN four
                        ELSE IF StrLen(three) <= 195 THEN three
                        ELSE two

\* C25 (as claimed): the full prompt of generate_suno_prompt and of each of the four
\* variations is style, mood, tempo and instruments joined by ", " when that is at
\* most 195 characters, else style, mood and tempo when that is at most 195
\* characters, else style and mood; it is always a join of whole fields.
C25_SameTruncationEverywhere ==
    ret.fn \in {"generate_suno_prompt", "generate_multiple_prompts"} =>
        \A i \in DOMAIN PromptsReturned : TruncatedInSteps(PromptsReturned[i])

\* shorter is the list longer cut after some element
IsPrefix(shorter, longer) ==
    /\ Len(shorter) <= Len(longer)
    /\ shorter = SubSeq(longer, 1, Len(shorter))

\* the tempo the energy inversion gives a profile
InvertedTempo(profile) ==
    IF profile.energy_level = "low" THEN <<"90-110 BPM">>
    ELSE IF profile.energy_level = "high" THEN <<"60-75 BPM">>
    ELSE <<"120-140 BPM">>

\* C26: the first prompt of generate_multiple_prompts is the prompt of
\* generate_suno_prompt; the second, if any, inverts the energy (its tempo is that
\* of the opposite energy, style and instruments are the base's), the third
\* contrasts the mood only (style, tempo and instruments are the base's), the
\* fourth replaces the instruments only, the fifth replaces style and mood and
\* keeps tempo and instruments; and the list for a count is a prefix of the list
\* for every count that is not smaller.
C26_BaseFirstThenFixedOrder ==
    ret.fn = "generate_multiple_prompts" =>
        LET prompts == ret.out.val
            base == prompts[1]
        IN  /\ Len(prompts) >= 1
            /\ base = generate_suno_prompt(arg.profile)
            /\ Len(prompts) >= 2 =>
                /\ prompts[2].tempo_bpm = InvertedTempo(arg.profile)
                /\ prompts[2].style_tags = base.style_tags
                /\ prompts[2].instruments = base.instruments
            /\ Len(prompts) >= 3 =>
                /\ prompts[3].style_tags = base.style_tags
                /\ prompts[3].tempo_bpm = base.tempo_bpm
                /\ prompts[3].instruments = base.instruments
            /\ Len(prompts) >= 4 =>
                /\ prompts[4].style_tags = base.style_tags
                /\ prompts[4].mood = base.mood
                /\ prompts[4].tempo_bpm = base.tempo_bpm
                /\ prompts[4].instruments # base.instruments
            /\ Len(prompts) >= 5 =>
                /\ prompts[5].style_tags # base.style_tags
                /\ prompts[5].tempo_bpm = base.tempo_bpm
                /\ prompts[5].instruments = base.instruments
            /\ \A n \in PromptCounts :
                /\ arg.count <= n => IsPrefix(prompts, generate_multiple_prompts(arg.profile, n))
                /\ n <= arg.count => IsPrefix(generate_multiple_prompts(arg.profile, n), prompts)

\* a count of 4 gives the base prompt and the first three variations, the first
\* of them with another tempo than the base
C26_Witness ==
    /\ ret.fn = "generate_multiple_prompts"
    /\ arg.count = 4
    /\ Len(ret.out.val) = 4
    /\ ret.out.val[2].tempo_bpm # ret.out.val[1].tempo_bpm
    /\ ret.out.val[4].instruments # ret.out.val[1].instruments

\* ------------------------------------------------------------ claims about the time slots

\* the hours of the day of each slot, as claimed
HoursOfSlot ==
    [late_night |-> 0..4, morning |-> 5..11, afternoon |-> 12..17, evening |-> 18..23]

\* the entries of the collection whose hour of the day is in the slot
EntriesInSlot(name) == {i \in DOMAIN arg : (arg[i].time.h % 24) \in HoursOfSlot[name]}

\* C27: every hour 0..23 is in exactly one of the four slots; analyze_content_by_time
\* returns at most one record per slot name, one for every slot that has an entry
\* and none for a slot without; video_count is the number of entries whose hour is
\* in the slot, so it is at least 1, and the counts add up to the number of entries.
C27_SlotsPartitionTheEntries ==
    ret.fn = "analyze_content_by_time" =>
        LET out == ret.out.val IN
        /\ \A h \in 0..23 :
            Cardinality({k \in DOMAIN TIME_SLOTS :
                            TIME_SLOTS[k][2] <= h /\ h < TIME_SLOTS[k][3]}) = 1
        /\ \A k, l \in DOMAIN out : k # l => out[k].time_slot # out[l].time_slot
        /\ {out[k].time_slot : k \in DOMAIN out}
                = {name \in DOMAIN HoursOfSlot : EntriesInSlot(name) # {}}
        /\ \A k \in DOMAIN out :
            /\ out[k].video_count >= 1
            /\ out[k].video_count = Cardinality(EntriesInSlot(out[k].time_slot))
        /\ SeqSum([k \in DOMAIN out |-> out[k].video_count]) = Len(arg)

\* entries at 18:00, 17:00 and 23:00: evening with two videos, afternoon with one
C27_Witness ==
    /\ ret.fn = "analyze_content_by_time"
    /\ [i \in DOMAIN arg |-> arg[i].time.h % 24] = <<18, 17, 23>>
    /\ [k \in DOMAIN ret.out.val |-> <<ret.out.val[k].time_slot, ret.out.val[k].video_count>>]
            = <<<<"evening", 2>>, <<"afternoon", 1>>>>

\* ------------------------------------------------------------ claims about stored timestamps

\* the timestamp string read as an instant of UTC, in hours
UtcHours(s) == s.h - (IF s.suffix \in {"Z", ""} THEN 0 ELSE Offsets[s.suffix])

\* C28 (as claimed): every entry parse_watch_history makes of a record whose
\* timestamp is written with "Z" or an offset carries that instant in UTC: its
\* offset is zero, and its hour of the day and its day are the UTC hour and day of
\* the instant, which is what the time analyses read.
C28_TimestampsAreUtc ==
    ret.fn = "parse_watch_history" /\ ret.out.exc = "none" =>
        LET kept == SelectSeq(arg, IsKept) IN
        \A i \in DOMAIN kept :
            kept[i].time[1].suffix # "" =>
                /\ ret.out.val[i].time.off = 0
                /\ HourOf(ret.out.val[i].time) = UtcHours(kept[i].time[1]) % 24
                /\ DateOf(ret.out.val[i].time) = UtcHours(kept[i].time[1]) \div 24

\* ------------------------------------------------------------ claims about the session and its cache

\* C29 (as claimed): a call of analyze_watch_history that fails, because the file is
\* missing, is not valid JSON or yields no entry, leaves the entries, the file
\* path and the cache file as they were before the call.
C29_FailedLoadChangesNothing ==
    [][(result'.op = "analyze_watch_history" /\ result'.kind = "raised")
            => UNCHANGED <<entries, file_path, cache_file>>]_vars

\* the cache file records the entries: as many, in the same order, each with the
\* title, the URL, the timestamp and the channels of the entry
Records(snapshot, es) ==
    /\ Len(snapshot) = Len(es)
    /\ \A i \in DOMAIN es :
        /\ snapshot[i].title = es[i].title
        /\ snapshot[i].titleUrl = es[i].titleUrl
        /\ snapshot[i].time.ok
        /\ snapshot[i].time.h = es[i].time.h
        /\ (snapshot[i].time.suffix # "") = es[i].time.aware
        /\ es[i].time.aware => Offsets[snapshot[i].time.suffix] = es[i].time.off
        /\ Len(snapshot[i].subtitles) = Len(es[i].subtitles)
        /\ \A k \in DOMAIN es[i].subtitles :
            /\ snapshot[i].subtitles[k].name = es[i].subtitles[k].name
            /\ snapshot[i].subtitles[k].url = es[i].subtitles[k].url

\* C30: as long as no write and no delete of the cache file has failed since the
\* process started without entries, whenever the session holds entries the cache
\* file is a snapshot that records the session's file path and its entries.
C30_SessionMatchesCache ==
    (entries # None /\ ~hist.io_failed) =>
        /\ cache_file.kind = "snapshot"
        /\ cache_file.file_path = file_path
        /\ Records(cache_file.entries, entries[1])

\* one.json was loaded without a failed write and the cache file records its one
\* entry under that path
C30_Witness ==
    /\ ~hist.io_failed
    /\ hist.loaded
    /\ result.op = "analyze_watch_history"
    /\ file_path = Some("one.json")
    /\ cache_file.file_path = Some("one.json")
    /\ Len(cache_file.entries) = 1
    /\ hist.trip.phase = "saved"

====
